---- MODULE Spec2Model ----
(***************************************************************************)
(* A model of paddlenlp/transformers/xlnet/modeling.py: the relative       *)
(* shift, the memory cache and the forward pass of XLNetModel.             *)
(*                                                                         *)
(* Tensors are modelled by their shape and, where an index computation is  *)
(* what matters, by a flat row-major sequence of tags that name the       *)
(* element each entry came from.  Floating point values are not modelled. *)
(* A Python None is the empty set and a present value v is {v}.            *)
(***************************************************************************)
EXTENDS Integers, Sequences, FiniteSets, TLC

VARIABLES
    self,       \* the XLNetModel object: its configuration fields
    mc_prev,    \* cache_mem chain: the memory returned by the last call
    mc_fed,     \* cache_mem chain: history of the eligible positions fed
    mc_calls,   \* cache_mem chain: number of calls made
    mc_out,     \* cache_mem chain: the curr_out of the last call
    mc_was,     \* cache_mem chain: the prev_mem of the last call
    sh_x,       \* rel_shift_bnij: the input tensor
    sh_klen,    \* rel_shift_bnij: the klen argument
    sh_out,     \* rel_shift_bnij: None before the call, {result} after
    fw_args,    \* forward: the arguments of the call
    fw_pc,      \* forward: where the call is
    fw_loc,     \* forward: the locals set up to line 854
    fw_attn_mask,       \* forward: the local attn_mask
    fw_non_tgt_mask,    \* forward: the local non_tgt_mask
    fw_output_h,        \* forward: the content stream, a sequence of tags
    fw_output_g,        \* forward: the query stream, None or {sequence}
    fw_pos_emb,         \* forward: the relative positional encoding
    fw_seg_mat,         \* forward: the local seg_mat
    fw_new_mems,        \* forward: the memories cached so far
    fw_hidden_states,   \* forward: None or {the hidden states collected}
    fw_attentions,      \* forward: None or {the attentions collected}
    fw_layers_run,      \* forward: number of layer calls started
    fw_ret,             \* forward: None or {the value returned}
    fw_exc,             \* forward: None or {the exception raised}
    fw_log,             \* forward: the calls made before, with their outcomes
    ps_args,    \* relative_positional_encoding: None or {the arguments}
    ps_fwd,     \* relative_positional_encoding: the local fwd_pos_seq
    ps_bwd,     \* relative_positional_encoding: the local bwd_pos_seq
    ps_emb,     \* relative_positional_encoding: the pos_emb returned
    co_args,    \* rel_attn_core: None or {the arguments of the call}
    co_out,     \* rel_attn_core: None or {the locals the call has set}
    ein_args,   \* einsum4x4: None or {the equation and the operands}
    ein_order,  \* einsum4x4: None or {the orders its index sets were read in}
    ein_out,    \* einsum4x4: None or {the tensor returned}
    cm_args,    \* create_mask: None or {the arguments of the call}
    cm_out      \* create_mask: None or {the mask returned}

memVars == <<mc_prev, mc_fed, mc_calls, mc_out, mc_was>>
shiftVars == <<sh_x, sh_klen, sh_out>>
fwdVars ==
    <<fw_args, fw_pc, fw_loc, fw_attn_mask, fw_non_tgt_mask, fw_output_h,
      fw_output_g, fw_pos_emb, fw_seg_mat, fw_new_mems, fw_hidden_states,
      fw_attentions,
      fw_layers_run, fw_ret, fw_exc, fw_log>>
posVars == <<ps_args, ps_fwd, ps_bwd, ps_emb>>
coreVars == <<co_args, co_out>>
einVars == <<ein_args, ein_order, ein_out>>
createMaskVars == <<cm_args, cm_out>>
pureVars == <<einVars, createMaskVars>>
vars ==
    <<self, memVars, shiftVars, fwdVars, posVars, coreVars, pureVars>>

-----------------------------------------------------------------------------
(* Bounds of the model *)

MaxMemLen == 3      \* mem_len ranges over None, 0..MaxMemLen
MaxReuseLen == 2    \* reuse_len ranges over None, 0..MaxReuseLen
MaxOut == 3         \* length of one curr_out fed to cache_mem
MaxCalls == 3       \* length of a chain of cache_mem calls
ShiftMaxBN == 2     \* batch and head sizes of a rel_shift_bnij input
ShiftMaxQ == 3      \* query length of a rel_shift_bnij input
ShiftMaxP == 4      \* position length of a rel_shift_bnij input
MaxLayer == 2       \* n_layer of a model whose forward is called
MaxBsz == 2         \* batch size of a forward call
MaxQlen == 2        \* sequence length of a forward call
MaxMlen == 1        \* length of the memories given to a forward call
MaskBsz == 2        \* batch size of a forward call that is given masks
MaskQlen == 2       \* sequence length of a forward call that is given masks
MaskMlen == 1       \* memory length of a forward call that is given masks
MaxMaskBits == 6    \* mask entries given to one forward call
MaxEarlier == 2     \* forward calls made before the one under way
PosMaxQlen == 3     \* qlen of a call of relative_positional_encoding
PosMaxMlen == 2     \* klen - qlen of a call of relative_positional_encoding
MaxClamp == 2       \* clamp_len ranges over -1..MaxClamp
CoreMaxQlen == 2    \* qlen of a call of rel_attn_core
CoreMaxMlen == 1    \* klen - qlen of a call of rel_attn_core
CoreMaskBits == 1   \* entries set in the mask given to rel_attn_core
MaxWeight == 2      \* largest exp(score) of an unmasked key

-----------------------------------------------------------------------------
(* Python values *)

None == {}
Some(v) == {v}
Get(o) == CHOOSE v \in o : TRUE
Opt(S) == {None} \cup {Some(v) : v \in S}

\* F(v), v being worked out once: a local variable of the code
Bind(v, F(_)) == CHOOSE res \in {F(w) : w \in {v}} : TRUE

Min(a, b) == IF a < b THEN a ELSE b
Max(a, b) == IF a > b THEN a ELSE b

\* s[start:] of Python, start possibly negative
SliceFrom(s, start) ==
    LET n == Len(s)
        lo == IF start < 0 THEN Max(n + start, 0) ELSE Min(start, n)
    IN  SubSeq(s, lo + 1, n)

\* s[:stop] of Python, stop possibly negative
SliceTo(s, stop) ==
    LET n == Len(s)
        hi == IF stop < 0 THEN Max(n + stop, 0) ELSE Min(stop, n)
    IN  SubSeq(s, 1, hi)

-----------------------------------------------------------------------------
(* Tensors: [err, shape, data]; err marks the result of an operation that  *)
(* raised, and every operation passes a raised operand on.                 *)

RECURSIVE Prod(_)
Prod(shape) == IF shape = <<>> THEN 1 ELSE Head(shape) * Prod(Tail(shape))

Raised == [err |-> TRUE, shape |-> <<>>, data |-> <<>>]

Tensor(shape, data) == [err |-> FALSE, shape |-> shape, data |-> data]

\* a tensor of the given shape whose entry at flat index f is the tag f
Iota(shape) == Tensor(shape, [f \in 1..Prod(shape) |-> f])

\* the shape of a tensor alone, for the operations whose values play no part
ShapeOnly(shape) == Tensor(shape, <<>>)

\* row-major position of the index idx (1-based) in a tensor of this shape
RECURSIVE FlatOff(_, _)
FlatOff(shape, idx) ==
    IF shape = <<>> THEN 0
    ELSE (Head(idx) - 1) * Prod(Tail(shape)) + FlatOff(Tail(shape), Tail(idx))

RECURSIVE Unflat(_, _)
Unflat(shape, f) ==
    IF shape = <<>> THEN <<>>
    ELSE <<((f - 1) \div Prod(Tail(shape))) + 1>>
         \o Unflat(Tail(shape), ((f - 1) % Prod(Tail(shape))) + 1)

\* x[idx], a dimension of size 1 being broadcast
At(x, idx) ==
    x.data[FlatOff(x.shape,
                   [a \in 1..Len(idx) |->
                       IF x.shape[a] = 1 THEN 1 ELSE idx[a]]) + 1]

\* the tensor of this shape whose entry at idx is F(idx)
Arr(shape, F(_)) ==
    Tensor(shape, [f \in 1..Prod(shape) |-> F(Unflat(shape, f))])

\* whether the elements of x are modelled (a tensor without elements has them)
HasData(x) == Len(x.data) = Prod(x.shape)

\* Arr when the operands' elements are modelled, the shape alone otherwise
Build(shape, known, F(_)) ==
    IF known THEN Arr(shape, F) ELSE ShapeOnly(shape)

\* paddle.transpose(x, perm), perm 0-based
transpose(x, perm) ==
    IF x.err \/ Len(perm) # Len(x.shape)
    THEN Raised
    ELSE LET n == Len(perm)
             shape == [k \in 1..n |-> x.shape[perm[k] + 1]]
         IN  Build(shape, HasData(x),
                   LAMBDA idx :
                       At(x, [a \in 1..n |->
                                 idx[CHOOSE k \in 1..n : perm[k] + 1 = a]]))

\* paddle.unsqueeze(x, axis), axis 0-based: the elements keep their order
unsqueeze(x, axis) ==
    IF x.err THEN Raised
    ELSE Tensor(SubSeq(x.shape, 1, axis) \o <<1>>
                \o SubSeq(x.shape, axis + 1, Len(x.shape)), x.data)

\* whether two shapes of the same rank broadcast against each other
Broadcastable(s, t) ==
    /\ Len(s) = Len(t)
    /\ \A a \in 1..Len(s) : s[a] = t[a] \/ s[a] = 1 \/ t[a] = 1

\* x + y with broadcasting
add(x, y) ==
    IF x.err \/ y.err \/ ~Broadcastable(x.shape, y.shape)
    THEN Raised
    ELSE Build([a \in 1..Len(x.shape) |-> Max(x.shape[a], y.shape[a])],
               HasData(x) /\ HasData(y),
               LAMBDA idx : At(x, idx) + At(y, idx))

\* paddle.concat([x, y], axis), axis 0-based
concat(x, y, axis) ==
    IF x.err \/ y.err \/ Len(x.shape) # Len(y.shape)
       \/ \E a \in 1..Len(x.shape) : a # axis + 1 /\ x.shape[a] # y.shape[a]
    THEN Raised
    ELSE LET n == x.shape[axis + 1]
         IN  Build([x.shape EXCEPT ![axis + 1] = n + y.shape[axis + 1]],
                   HasData(x) /\ HasData(y),
                   LAMBDA idx :
                       IF idx[axis + 1] <= n
                       THEN At(x, idx)
                       ELSE At(y, [idx EXCEPT ![axis + 1] = idx[axis + 1] - n]))

\* paddle.cast(x > 0, dtype=dtype_float)
positive(x) ==
    IF x.err THEN Raised
    ELSE Tensor(x.shape,
                [f \in 1..Len(x.data) |-> IF x.data[f] > 0 THEN 1 ELSE 0])

\* paddle.reshape(x, shape): the elements in row-major order, regrouped
reshape(x, shape) ==
    IF x.err \/ Prod(shape) # Prod(x.shape)
    THEN Raised
    ELSE Tensor(shape, x.data)

\* x[:, :, 1:, :] of a 4-D tensor
DropFirstOfAxis2(x) ==
    IF x.err THEN Raised
    ELSE LET r == x.shape[3]
             c == x.shape[4]
             keep == Max(r - 1, 0) * c
             shape == <<x.shape[1], x.shape[2], Max(r - 1, 0), c>>
         IN  Tensor(shape,
                    [f \in 1..Prod(shape) |->
                        x.data[((f - 1) \div keep) * (r * c) + c
                               + ((f - 1) % keep) + 1]])

\* paddle.index_select(x, index=paddle.arange(k), axis=3) of a 4-D tensor
SelectFirstOfAxis3(x, k) ==
    IF x.err \/ k > x.shape[4]
    THEN Raised
    ELSE LET w == x.shape[4]
             n == Max(k, 0)
             shape == <<x.shape[1], x.shape[2], x.shape[3], n>>
         IN  Tensor(shape,
                    [f \in 1..Prod(shape) |->
                        x.data[((f - 1) \div n) * w + ((f - 1) % n) + 1]])

\* the same selection when the index_select is left out
rel_shift_no_select(x, klen) ==
    LET x_size == x.shape
        x1 == reshape(x, <<x_size[1], x_size[2], x_size[4], x_size[3]>>)
        x2 == DropFirstOfAxis2(x1)
    IN  reshape(x2, <<x_size[1], x_size[2], x_size[3], x_size[4] - 1>>)

\* x[:, :, :-1, :] of a 4-D tensor
DropLastOfAxis2(x) ==
    IF x.err THEN Raised
    ELSE LET r == x.shape[3]
             c == x.shape[4]
             keep == Max(r - 1, 0) * c
             shape == <<x.shape[1], x.shape[2], Max(r - 1, 0), c>>
         IN  Tensor(shape,
                    [f \in 1..Prod(shape) |->
                        x.data[((f - 1) \div keep) * (r * c)
                               + ((f - 1) % keep) + 1]])

\* the shift that drops the last row instead of the first
rel_shift_drop_last(x, klen) ==
    LET x_size == x.shape
        x1 == reshape(x, <<x_size[1], x_size[2], x_size[4], x_size[3]>>)
        x2 == DropLastOfAxis2(x1)
        x3 == reshape(x2, <<x_size[1], x_size[2], x_size[3], x_size[4] - 1>>)
    IN  SelectFirstOfAxis3(x3, klen)

\* XLNetRelativeAttention.rel_shift_bnij
rel_shift_bnij(x, klen) ==
    LET x_size == x.shape
        x1 == reshape(x, <<x_size[1], x_size[2], x_size[4], x_size[3]>>)
        x2 == DropFirstOfAxis2(x1)
        x3 == reshape(x2, <<x_size[1], x_size[2], x_size[3], x_size[4] - 1>>)
    IN  SelectFirstOfAxis3(x3, klen)

-----------------------------------------------------------------------------
(* XLNetRelativeAttention and XLNetLayer, by the shapes of their tensors *)

HalfDModel == 1  \* d_model is 2 * HalfDModel
NHead == 2       \* n_head
DHead == 1       \* d_head

DModel == 2 * HalfDModel

\* the five projection matrices self.q, self.k, self.v, self.o, self.r
Weight == ShapeOnly(<<DModel, NHead * DHead>>)

LeftPad(shape, n) == [a \in 1..(n - Len(shape)) |-> 1] \o shape

\* paddle.matmul(x, y): the last two axes multiplied, the others broadcast
matmul(x, y) ==
    IF x.err \/ y.err THEN Raised
    ELSE LET nx == Len(x.shape)
             ny == Len(y.shape)
             nb == Max(nx, ny) - 2
             xb == LeftPad(SubSeq(x.shape, 1, nx - 2), nb)
             yb == LeftPad(SubSeq(y.shape, 1, ny - 2), nb)
         IN  IF x.shape[nx] # y.shape[ny - 1] \/ ~Broadcastable(xb, yb)
             THEN Raised
             ELSE ShapeOnly([a \in 1..nb |-> Max(xb[a], yb[a])]
                            \o <<x.shape[nx - 1], y.shape[ny]>>)

\* the size of the axis that the letter l names in the operand x
AxisOf(idx, x, l) == x.shape[CHOOSE k \in 1..Len(idx) : idx[k] = l]

Letters(idx) == {idx[k] : k \in 1..Len(idx)}

\* einsum4x4(equation, x, y): the shape of the result
einsum4x4(idx_x, idx_y, idx_z, x, y) ==
    IF x.err \/ y.err \/ Len(x.shape) # 4 \/ Len(y.shape) # 4
       \/ \E l \in Letters(idx_x) \cap Letters(idx_y) :
              AxisOf(idx_x, x, l) # AxisOf(idx_y, y, l)
    THEN Raised
    ELSE ShapeOnly([k \in 1..4 |->
                       IF idx_z[k] \in Letters(idx_x)
                       THEN AxisOf(idx_x, x, idx_z[k])
                       ELSE AxisOf(idx_y, y, idx_z[k])])

ibnd == <<"i", "b", "n", "d">>
jbnd == <<"j", "b", "n", "d">>
bnij == <<"b", "n", "i", "j">>
isnd == <<"i", "s", "n", "d">>
ibns == <<"i", "b", "n", "s">>
ijbs == <<"i", "j", "b", "s">>

\* a tensor of x's shape with every entry tagged by its own position
Tagged(x) == IF x.err THEN Raised ELSE Iota(x.shape)

\* XLNetRelativeAttention.rel_attn_core without a head mask:
\* [err, attn_vec, bd, attn_prob], each entry of bd tagged with the
\* flat position it had in the scores against the position keys
rel_attn_core(q_head, k_head_h, v_head_h, k_head_r, seg_mat, attn_mask) ==
    Bind(einsum4x4(ibnd, jbnd, bnij, q_head, k_head_h), LAMBDA ac :
    Bind(einsum4x4(ibnd, jbnd, bnij, q_head, k_head_r), LAMBDA bd0 :
    Bind(IF ac.err THEN Raised
         ELSE rel_shift_bnij(Tagged(bd0), ac.shape[4]), LAMBDA bd :
    Bind(IF seg_mat = None THEN ShapeOnly(<<1, 1, 1, 1>>)
         ELSE IF q_head.err THEN Raised
         ELSE einsum4x4(ijbs, ibns, bnij, ShapeOnly(Get(seg_mat).shape),
                        einsum4x4(ibnd, isnd, ibns, q_head,
                                  ShapeOnly(<<q_head.shape[1], 2, NHead,
                                              DHead>>))), LAMBDA ef :
    Bind(add(add(ac, ShapeOnly(bd.shape)), ef), LAMBDA attn_score :
    Bind(IF bd.err THEN Raised
         ELSE IF attn_mask = None THEN attn_score
         ELSE add(attn_score,
                  transpose(ShapeOnly(Get(attn_mask).shape), <<2, 3, 0, 1>>)),
         LAMBDA attn_prob :
    Bind(einsum4x4(bnij, jbnd, ibnd, attn_prob, v_head_h), LAMBDA attn_vec :
        [err |-> attn_vec.err, attn_vec |-> attn_vec, bd |-> bd,
         attn_prob |-> transpose(attn_prob, <<2, 3, 0, 1>>)])))))))

\* XLNetRelativeAttention.post_attention
post_attention(h, attn_vec) ==
    IF attn_vec.err THEN Raised
    ELSE Bind(attn_vec.shape, LAMBDA shape :
         Bind(reshape(attn_vec, <<shape[1] * shape[2], shape[3] * shape[4]>>),
              LAMBDA flat :
         Bind(reshape(matmul(flat, transpose(Weight, <<1, 0>>)),
                      <<shape[1], shape[2], DModel>>), LAMBDA attn_out :
             add(attn_out, h))))

\* [cat.shape[0], cat.shape[1], n_head, d_head] and its like
Heads(x) == <<x.shape[1], x.shape[2], NHead, DHead>>

\* lines 226-229 and 332-335
cat_of(mems, h) ==
    IF mems # None /\ Len(Get(mems).shape) > 1
    THEN concat(Get(mems), h, 0)
    ELSE h

\* the query stream's attention, lines 277-325
g_stream(g, k_head_h, v_head_h, k_head_r, seg_mat, attn_mask_g, target_mapping) ==
    Bind(reshape(matmul(g, Weight), Heads(g)), LAMBDA q_head_g :
        IF target_mapping # None
        THEN Bind(transpose(Get(target_mapping), <<2, 0, 1>>), LAMBDA tm1 :
             Bind(transpose(
                      matmul(transpose(q_head_g, <<1, 2, 3, 0>>), tm1),
                      <<3, 0, 1, 2>>), LAMBDA q1 :
             Bind(rel_attn_core(q1, k_head_h, v_head_h, k_head_r, seg_mat,
                                attn_mask_g), LAMBDA core :
             Bind(transpose(
                      matmul(transpose(core.attn_vec, <<1, 2, 3, 0>>),
                             transpose(tm1, <<2, 1, 0>>)),
                      <<3, 0, 1, 2>>), LAMBDA vec :
                 [err |-> vec.err, attn_vec |-> vec,
                  attn_prob |-> core.attn_prob]))))
        ELSE rel_attn_core(q_head_g, k_head_h, v_head_h, k_head_r, seg_mat,
                           attn_mask_g))

\* the two-stream branch, lines 223-328
two_stream(h, g, attn_mask_h, attn_mask_g, r, seg_mat, mems, target_mapping) ==
    Bind(cat_of(mems, h), LAMBDA cat :
    Bind(reshape(matmul(cat, Weight), Heads(cat)), LAMBDA k_head_h :
    Bind(reshape(matmul(cat, Weight), Heads(cat)), LAMBDA v_head_h :
    Bind(reshape(matmul(r, Weight), Heads(cat)), LAMBDA k_head_r :
    Bind(reshape(matmul(h, Weight), Heads(cat)), LAMBDA q_head_h :
    Bind(rel_attn_core(q_head_h, k_head_h, v_head_h, k_head_r, seg_mat,
                       attn_mask_h), LAMBDA core_h :
    Bind(post_attention(h, core_h.attn_vec), LAMBDA output_h_ :
    Bind(g_stream(Get(g), k_head_h, v_head_h, k_head_r, seg_mat,
                  attn_mask_g, target_mapping), LAMBDA core_g :
    Bind(post_attention(Get(g), core_g.attn_vec), LAMBDA output_g_ :
        [err |-> cat.err \/ output_h_.err \/ output_g_.err,
         output_h |-> output_h_, output_g |-> Some(output_g_),
         attn_prob |-> <<core_h.attn_prob, core_g.attn_prob>>])))))))))

\* the content-only branch, lines 330-379
content_only(h, attn_mask_h, r, seg_mat, mems) ==
    Bind(cat_of(mems, h), LAMBDA cat :
    Bind(reshape(matmul(h, Weight), Heads(h)), LAMBDA q_head_h :
    Bind(reshape(matmul(cat, Weight), Heads(h)), LAMBDA k_head_h :
    Bind(reshape(matmul(cat, Weight), Heads(h)), LAMBDA v_head_h :
    Bind(matmul(r, Weight), LAMBDA k_head_r_ :
    Bind(reshape(k_head_r_, Heads(k_head_r_)), LAMBDA k_head_r :
    Bind(rel_attn_core(q_head_h, k_head_h, v_head_h, k_head_r, seg_mat,
                       attn_mask_h), LAMBDA core :
    Bind(post_attention(h, core.attn_vec), LAMBDA output_h_ :
        [err |-> cat.err \/ output_h_.err,
         output_h |-> output_h_, output_g |-> None,
         attn_prob |-> <<core.attn_prob>>]))))))))

\* XLNetRelativeAttention.forward followed by the feed-forward block of
\* XLNetLayer.forward, which keeps every shape
rel_attn(h, g, attn_mask_h, attn_mask_g, r, seg_mat, mems, target_mapping) ==
    IF g # None
    THEN two_stream(h, g, attn_mask_h, attn_mask_g, r, seg_mat, mems,
                    target_mapping)
    ELSE content_only(h, attn_mask_h, r, seg_mat, mems)

-----------------------------------------------------------------------------
(* XLNetModel.cache_mem *)

\* the part that ignores reuse_len
Eligible_all(slf, curr_out) == curr_out

\* the part of curr_out that may enter the memory
Eligible(slf, curr_out) ==
    IF slf.reuse_len # None /\ Get(slf.reuse_len) > 0
    THEN SliceTo(curr_out, Get(slf.reuse_len))
    ELSE curr_out

\* cache_mem that forgets the previous memory
cache_mem_no_prev(slf, curr_out, prev_mem) ==
    LET cur == Eligible(slf, curr_out)
    IN  IF slf.mem_len = None \/ Get(slf.mem_len) = 0
        THEN cur
        ELSE SliceFrom(cur, 0 - Get(slf.mem_len))

\* cache_mem that keeps the leading mem_len entries
cache_mem_keep_first(slf, curr_out, prev_mem) ==
    LET cur == Eligible(slf, curr_out)
        all == IF prev_mem = None THEN cur ELSE Get(prev_mem) \o cur
    IN  IF slf.mem_len = None \/ Get(slf.mem_len) = 0
        THEN all
        ELSE SliceTo(all, Get(slf.mem_len))

cache_mem(slf, curr_out, prev_mem) ==
    LET cur == Eligible(slf, curr_out)
        cutoff == IF slf.mem_len = None \/ Get(slf.mem_len) = 0
                  THEN 0
                  ELSE 0 - Get(slf.mem_len)
    IN  IF prev_mem = None
        THEN SliceFrom(cur, cutoff)
        ELSE SliceFrom(Get(prev_mem) \o cur, cutoff)

-----------------------------------------------------------------------------
(* XLNetModel.create_mask and the masks of XLNetModel.forward *)

\* paddle.triu(paddle.ones([n, n]), diagonal): 1 where col - row >= diagonal
triu(n, diagonal) ==
    Arr(<<n, n>>, LAMBDA idx : IF idx[2] - idx[1] >= diagonal THEN 1 ELSE 0)

\* paddle.tril(paddle.ones([n, n]), diagonal): 1 where col - row <= diagonal
tril(n, diagonal) ==
    Arr(<<n, n>>, LAMBDA idx : IF idx[2] - idx[1] <= diagonal THEN 1 ELSE 0)

zeros(shape) == Arr(shape, LAMBDA idx : 0)

\* x[:, lo:hi] of a 2-D tensor, lo and hi 0-based and within the axis
Columns(x, lo, hi) ==
    Arr(<<x.shape[1], hi - lo>>, LAMBDA idx : At(x, <<idx[1], idx[2] + lo>>))

\* a causal mask that also masks the diagonal
create_mask_diag0(slf, qlen, mlen) ==
    concat(zeros(<<qlen, mlen>>), triu(qlen, 0), 1)

\* the mask that same_length has no part in
create_mask_no_same_length(slf, qlen, mlen) ==
    concat(zeros(<<qlen, mlen>>), triu(qlen, 1), 1)

create_mask(slf, qlen, mlen) ==
    LET mask_up == triu(qlen, 1)
        attn_mask_pad == zeros(<<qlen, mlen>>)
        ret == concat(attn_mask_pad, mask_up, 1)
    IN  IF slf.same_length
        THEN concat(add(Columns(ret, 0, qlen), tril(qlen, 0 - 1)),
                    Columns(ret, qlen, qlen + mlen), 1)
        ELSE ret

\* the padding mask when attention_mask is taken for an input mask
input_mask_not_inverted(loc) ==
    IF loc.input_mask = None THEN loc.attention_mask ELSE loc.input_mask

\* lines 870-871: the padding mask in use, a Python None or {tensor}
input_mask_used(loc) ==
    IF loc.input_mask = None /\ loc.attention_mask # None
    THEN LET m == Get(loc.attention_mask)
         IN  Some(Arr(m.shape, LAMBDA idx : 1 - At(m, idx)))
    ELSE loc.input_mask

\* lines 872-879
data_mask_of(input_mask, perm_mask) ==
    IF input_mask # None /\ perm_mask # None
    THEN Some(add(unsqueeze(Get(input_mask), 0), Get(perm_mask)))
    ELSE IF input_mask # None
    THEN Some(unsqueeze(Get(input_mask), 0))
    ELSE perm_mask

\* lines 881-891: the causal mask and the data mask, added
with_data_mask(attn_mask, data_mask, mlen, bsz) ==
    IF data_mask = None THEN attn_mask
    ELSE LET d == Get(data_mask)
             dm == IF mlen > 0
                   THEN concat(zeros(<<d.shape[1], mlen, bsz>>), d, 1)
                   ELSE d
         IN  IF attn_mask = None
             THEN Some(unsqueeze(dm, 3))
             ELSE Some(add(Get(attn_mask), unsqueeze(dm, 3)))

\* the mask left as the sum it is
threshold_skipped(attn_mask) == attn_mask

\* lines 893-894
threshold(attn_mask) ==
    IF attn_mask = None THEN None ELSE Some(positive(Get(attn_mask)))

\* lines 896-912
non_tgt_mask_of(attn_mask, qlen, mlen) ==
    IF attn_mask = None THEN None
    ELSE LET eye == Arr(<<qlen, qlen>>,
                        LAMBDA idx : IF idx[1] = idx[2] THEN 0 - 1 ELSE 0)
             padded == IF mlen > 0
                       THEN concat(zeros(<<qlen, mlen>>), eye, 1)
                       ELSE eye
         IN  Some(positive(add(Get(attn_mask),
                               unsqueeze(unsqueeze(padded, 2), 3))))

\* x == y with broadcasting, cast to int64
equal(x, y) ==
    IF x.err \/ y.err \/ ~Broadcastable(x.shape, y.shape)
    THEN Raised
    ELSE Build([a \in 1..Len(x.shape) |-> Max(x.shape[a], y.shape[a])],
               HasData(x) /\ HasData(y),
               LAMBDA idx : IF At(x, idx) = At(y, idx) THEN 1 ELSE 0)

\* x != y with broadcasting, cast to int64
not_equal(x, y) ==
    IF x.err \/ y.err \/ ~Broadcastable(x.shape, y.shape)
    THEN Raised
    ELSE Build([a \in 1..Len(x.shape) |-> Max(x.shape[a], y.shape[a])],
               HasData(x) /\ HasData(y),
               LAMBDA idx : IF At(x, idx) # At(y, idx) THEN 1 ELSE 0)

\* F.one_hot(x, num_classes) of a tensor of class numbers
one_hot(x, num_classes) ==
    IF x.err \/ ~HasData(x)
       \/ \E f \in 1..Len(x.data) : x.data[f] \notin 0..(num_classes - 1)
    THEN Raised
    ELSE Arr(x.shape \o <<num_classes>>,
             LAMBDA idx :
                 IF At(x, SubSeq(idx, 1, Len(x.shape))) = idx[Len(idx)] - 1
                 THEN 1 ELSE 0)

\* lines 929-947: seg_mat, token_type_ids being [qlen, bsz] by now
seg_mat_of(token_type_ids, mlen, bsz) ==
    IF token_type_ids = None THEN None
    ELSE LET cat_ids == IF mlen > 0
                        THEN concat(zeros(<<mlen, bsz>>),
                                    Get(token_type_ids), 0)
                        ELSE Get(token_type_ids)
         IN  Some(one_hot(not_equal(unsqueeze(Get(token_type_ids), 1),
                                    unsqueeze(cat_ids, 0)), 2))

-----------------------------------------------------------------------------
(* The model object *)

Configs ==
    [mem_len : Opt(0..MaxMemLen), reuse_len : Opt(0..MaxReuseLen),
     same_length : {FALSE}, attn_type : {"bi"}, bi_data : {FALSE},
     clamp_len : {-1}, n_layer : {1}, training : {FALSE}]

\* no call of cache_mem under way
MemIdle ==
    /\ mc_prev = None
    /\ mc_fed = <<>>
    /\ mc_calls = 0
    /\ mc_out = <<>>
    /\ mc_was = None

\* no call of rel_shift_bnij under way
ShiftIdle ==
    /\ sh_x = Iota(<<1, 1, 1, 1>>)
    /\ sh_klen = 1
    /\ sh_out = None

\* no call of relative_positional_encoding made
PosIdle ==
    /\ ps_args = None
    /\ ps_fwd = <<>>
    /\ ps_bwd = <<>>
    /\ ps_emb = Raised

\* no call of rel_attn_core made
CoreIdle ==
    /\ co_args = None
    /\ co_out = None

\* no call of einsum4x4 made
EinIdle ==
    /\ ein_args = None
    /\ ein_order = None
    /\ ein_out = None

\* no call of create_mask made
CreateMaskIdle ==
    /\ cm_args = None
    /\ cm_out = None

\* the locals of forward before the call has set them
FwdLocalsUnset ==
    /\ fw_loc = None
    /\ fw_attn_mask = None
    /\ fw_non_tgt_mask = None
    /\ fw_output_h = <<>>
    /\ fw_output_g = None
    /\ fw_pos_emb = Raised
    /\ fw_seg_mat = None
    /\ fw_new_mems = <<>>
    /\ fw_hidden_states = None
    /\ fw_attentions = None
    /\ fw_layers_run = 0
    /\ fw_ret = None
    /\ fw_exc = None

\* no call of forward was made before
FirstCall == fw_log = <<>>

\* no call of forward under way
FwdIdle ==
    /\ fw_args = None
    /\ FirstCall
    /\ fw_pc = "idle"
    /\ FwdLocalsUnset

-----------------------------------------------------------------------------
(* XLNetModel.forward.  An error that a paddle operation raises on shapes  *)
(* that do not fit is named ShapeError here.                               *)

\* the flag that ignores the mode
use_mems_train_always(slf, a) == a.use_mems_train

\* lines 819-822
use_mems_of(slf, a) ==
    IF slf.training THEN a.use_mems_train ELSE a.use_mems_eval

\* the check that misses the case of both inputs
inputs_invalid_neither_only(a) ==
    a.input_ids = None /\ a.inputs_embeds = None

\* lines 827-839: whether a ValueError is raised
inputs_invalid(a) ==
    \/ a.input_ids # None /\ a.inputs_embeds # None
    \/ a.input_ids = None /\ a.inputs_embeds = None

TransposeOpt(o, perm) ==
    IF o = None THEN None ELSE Some(transpose(Get(o), perm))

OptErr(o) == o # None /\ Get(o).err

\* lines 831-854: the locals once the inputs are transposed
locals_of(slf, a) ==
    LET ids == TransposeOpt(a.input_ids, <<1, 0>>)
        embeds == IF a.input_ids # None THEN a.inputs_embeds
                  ELSE TransposeOpt(a.inputs_embeds, <<1, 0>>)
        inp == IF a.input_ids # None THEN Get(ids) ELSE Get(embeds)
        token_type_ids == TransposeOpt(a.token_type_ids, <<1, 0>>)
        input_mask == TransposeOpt(a.input_mask, <<1, 0>>)
        attention_mask == TransposeOpt(a.attention_mask, <<1, 0>>)
        perm_mask == TransposeOpt(a.perm_mask, <<1, 2, 0>>)
        target_mapping == TransposeOpt(a.target_mapping, <<1, 2, 0>>)
        qlen == IF inp.err THEN 0 ELSE inp.shape[1]
        mlen == IF a.mems # None /\ Get(a.mems)[1] # None
                THEN Len(Get(Get(a.mems)[1]))
                ELSE 0
    IN  [err |-> inp.err \/ OptErr(token_type_ids) \/ OptErr(input_mask)
                 \/ OptErr(attention_mask)
                 \/ OptErr(perm_mask) \/ OptErr(target_mapping),
         use_mems |-> use_mems_of(slf, a),
         input_ids |-> ids, inputs_embeds |-> embeds,
         token_type_ids |-> token_type_ids,
         input_mask |-> input_mask, attention_mask |-> attention_mask,
         perm_mask |-> perm_mask, target_mapping |-> target_mapping,
         qlen |-> qlen, bsz |-> IF inp.err THEN 0 ELSE inp.shape[2],
         mlen |-> mlen, klen |-> mlen + qlen]

\* lines 858-865: the causal mask of a known attention type
causal_mask(slf, qlen, mlen) ==
    IF slf.attn_type = "uni"
    THEN Some(unsqueeze(unsqueeze(create_mask(slf, qlen, mlen), 2), 3))
    ELSE None

\* the assertion that never fails
masks_conflict_unchecked(l) == FALSE

\* line 868: whether the assertion fails
masks_conflict(l) == l.input_mask # None /\ l.attention_mask # None

\* paddle.arange(beg, end, -1.0)
arange_down(beg, end) == [k \in 1..Max(beg - end, 0) |-> beg - (k - 1)]

\* paddle.arange(beg, end, 1.0)
arange_up(beg, end) == [k \in 1..Max(end - beg, 0) |-> beg + (k - 1)]

\* pos_seq.clamp(lo, hi)
clamp(pos_seq, lo, hi) ==
    [k \in DOMAIN pos_seq |-> Max(lo, Min(hi, pos_seq[k]))]

\* lines 782-784 and 797-798
clamped(slf, pos_seq) ==
    IF slf.clamp_len > 0
    THEN clamp(pos_seq, 0 - slf.clamp_len, slf.clamp_len)
    ELSE pos_seq

\* a forward sequence that stops one position early
fwd_pos_seq_short(slf, qlen, klen) ==
    clamped(slf, arange_down(klen, IF slf.attn_type = "bi"
                                   THEN 1 - qlen ELSE 0))

\* the local fwd_pos_seq of relative_positional_encoding
fwd_pos_seq(slf, qlen, klen) ==
    clamped(slf, arange_down(klen, IF slf.attn_type = "bi"
                                   THEN 0 - qlen ELSE 0 - 1))

\* the local bwd_pos_seq of relative_positional_encoding
bwd_pos_seq(slf, qlen, klen) ==
    clamped(slf, arange_up(0 - klen, IF slf.attn_type = "bi"
                                     THEN qlen ELSE 1))

\* freq_seq, line 768
freq_seq == [k \in 1..((DModel + 1) \div 2) |-> 2 * (k - 1)]

\* XLNetModel.positional_embedding: the shape of pos_emb
positional_embedding(pos_seq, inv_freq, bsz) ==
    ShapeOnly(<<Len(pos_seq), bsz, 2 * Len(inv_freq)>>)

\* XLNetModel.relative_positional_encoding: the shape of pos_emb
relative_positional_encoding(slf, qlen, klen, bsz) ==
    IF slf.attn_type \notin {"bi", "uni"} THEN Raised
    ELSE IF slf.bi_data
         THEN concat(positional_embedding(fwd_pos_seq(slf, qlen, klen),
                                          freq_seq, bsz \div 2),
                     positional_embedding(bwd_pos_seq(slf, qlen, klen),
                                          freq_seq, bsz \div 2), 1)
         ELSE positional_embedding(fwd_pos_seq(slf, qlen, klen),
                                   freq_seq, bsz)

\* the rows of a stream: its positions, tagged with the stream and the
\* number of layers they went through
Rows(stream, layer, n) == [t \in 1..n |-> <<stream, layer, t>>]

\* the tensor of a stream or of a memory
Hidden(rows, bsz) == ShapeOnly(<<Len(rows), bsz, DModel>>)

HiddenOpt(o, bsz) == IF o = None THEN None ELSE Some(Hidden(Get(o), bsz))

\* a layer that finds the memory an earlier call left behind
MemOf_leaked(a, i) ==
    IF a.mems # None THEN Get(a.mems)[i]
    ELSE IF fw_log = <<>> THEN None
    ELSE Some(<<<<"mem", i, 1>>>>)

\* mems[i], lines 969-970
MemOf(a, i) == IF a.mems = None THEN None ELSE Get(a.mems)[i]

Raise(e) ==
    /\ fw_pc' = "raised"
    /\ fw_exc' = Some(e)

\* lines 819-865
Enter ==
    /\ fw_pc = "call"
    /\ IF inputs_invalid(fw_args)
       THEN Raise("ValueError") /\ UNCHANGED <<fw_loc, fw_attn_mask>>
       ELSE LET l == locals_of(self, fw_args)
            IN  /\ fw_loc' = Some(l)
                /\ IF l.err
                   THEN Raise("ShapeError") /\ UNCHANGED fw_attn_mask
                   ELSE IF self.attn_type \notin {"uni", "bi"}
                   THEN Raise("ValueError") /\ UNCHANGED fw_attn_mask
                   ELSE /\ fw_attn_mask' = causal_mask(self, l.qlen, l.mlen)
                        /\ fw_pc' = "data_mask"
                        /\ UNCHANGED fw_exc
    /\ UNCHANGED <<self, pureVars, memVars, shiftVars, posVars,
                   coreVars,
                   fw_log, fw_args, fw_non_tgt_mask,
                   fw_output_h, fw_output_g, fw_pos_emb, fw_seg_mat,
                   fw_new_mems,
                   fw_hidden_states, fw_attentions, fw_layers_run, fw_ret>>

\* lines 867-912
DataMask ==
    /\ fw_pc = "data_mask"
    /\ LET l == Get(fw_loc)
       IN  IF masks_conflict(l)
           THEN Raise("AssertionError")
                /\ UNCHANGED <<fw_attn_mask, fw_non_tgt_mask>>
           ELSE LET data_mask == data_mask_of(input_mask_used(l), l.perm_mask)
                    mask == threshold(with_data_mask(fw_attn_mask, data_mask,
                                                     l.mlen, l.bsz))
                IN  IF OptErr(mask)
                    THEN Raise("ShapeError")
                         /\ UNCHANGED <<fw_attn_mask, fw_non_tgt_mask>>
                    ELSE /\ fw_attn_mask' = mask
                         /\ fw_non_tgt_mask' =
                                non_tgt_mask_of(mask, l.qlen, l.mlen)
                         /\ fw_pc' = "prepare"
                         /\ UNCHANGED fw_exc
    /\ UNCHANGED <<self, pureVars, memVars, shiftVars, posVars,
                   coreVars,
                   fw_log, fw_args, fw_loc, fw_output_h,
                   fw_output_g, fw_pos_emb, fw_seg_mat, fw_new_mems,
                   fw_hidden_states,
                   fw_attentions, fw_layers_run, fw_ret>>

\* lines 914-973
Prepare ==
    /\ fw_pc = "prepare"
    /\ LET l == Get(fw_loc)
           word_emb_k == IF l.inputs_embeds # None
                         THEN Get(l.inputs_embeds)
                         ELSE ShapeOnly(Get(l.input_ids).shape \o <<DModel>>)
           seg_mat == seg_mat_of(l.token_type_ids, l.mlen, l.bsz)
           r == relative_positional_encoding(self, l.qlen, l.klen, l.bsz)
       IN  /\ fw_output_h' = Rows("h", 0, word_emb_k.shape[1])
           /\ fw_output_g' =
                  IF l.target_mapping # None
                  THEN Some(Rows("g", 0, Get(l.target_mapping).shape[1]))
                  ELSE None
           /\ fw_seg_mat' = seg_mat
           /\ fw_pos_emb' = IF OptErr(seg_mat) THEN fw_pos_emb ELSE r
           /\ IF OptErr(seg_mat) \/ r.err
              THEN Raise(IF OptErr(seg_mat) THEN "ShapeError"
                         ELSE "ValueError")
                   /\ UNCHANGED <<fw_new_mems, fw_hidden_states,
                                  fw_attentions>>
              ELSE /\ fw_new_mems' = <<>>
                   /\ fw_attentions' =
                          IF fw_args.output_attentions
                          THEN Some(<<>>) ELSE None
                   /\ fw_hidden_states' =
                          IF fw_args.output_hidden_states
                          THEN Some(<<>>) ELSE None
                   /\ fw_pc' = "layers"
                   /\ UNCHANGED fw_exc
    /\ UNCHANGED <<self, pureVars, memVars, shiftVars, posVars,
                   coreVars,
                   fw_log, fw_args, fw_loc, fw_attn_mask,
                   fw_non_tgt_mask, fw_layers_run, fw_ret>>

\* (output_h, output_g) if output_g is not None else output_h
StreamsOf(h, g) == IF g # None THEN <<h, Get(g)>> ELSE <<h>>

\* lines 974-996: one turn of the loop over the layers
LayerStep ==
    /\ fw_pc = "layers"
    /\ fw_layers_run < self.n_layer
    /\ LET l == Get(fw_loc)
           i == fw_layers_run + 1
           mem == MemOf(fw_args, i)
       IN  \E outputs \in {rel_attn(Hidden(fw_output_h, l.bsz),
                                    HiddenOpt(fw_output_g, l.bsz),
                                    fw_non_tgt_mask, fw_attn_mask, fw_pos_emb,
                                    fw_seg_mat, HiddenOpt(mem, l.bsz),
                                    l.target_mapping)} :
           /\ fw_new_mems' =
                  IF l.use_mems
                  THEN Append(fw_new_mems, cache_mem(self, fw_output_h, mem))
                  ELSE fw_new_mems
           /\ fw_hidden_states' =
                  IF fw_args.output_hidden_states
                  THEN Some(Append(Get(fw_hidden_states),
                                   StreamsOf(fw_output_h, fw_output_g)))
                  ELSE fw_hidden_states
           /\ fw_layers_run' = i
           /\ IF outputs.err
              THEN Raise("ShapeError")
                   /\ UNCHANGED <<fw_output_h, fw_output_g, fw_attentions>>
              ELSE /\ fw_output_h' = Rows("h", i, outputs.output_h.shape[1])
                   /\ fw_output_g' =
                          IF outputs.output_g = None THEN None
                          ELSE Some(Rows("g", i,
                                         Get(outputs.output_g).shape[1]))
                   /\ fw_attentions' =
                          IF fw_args.output_attentions
                          THEN Some(Append(Get(fw_attentions),
                                           outputs.attn_prob))
                          ELSE fw_attentions
                   /\ UNCHANGED <<fw_pc, fw_exc>>
    /\ UNCHANGED <<self, pureVars, memVars, shiftVars, posVars,
                   coreVars,
                   fw_log, fw_args, fw_loc, fw_attn_mask,
                   fw_non_tgt_mask, fw_pos_emb, fw_seg_mat, fw_ret>>

RECURSIVE Flatten(_)
Flatten(ss) == IF ss = <<>> THEN <<>> ELSE Head(ss) \o Flatten(Tail(ss))

\* paddle.transpose(h, perm=[1, 0, 2]) of a stream
BatchFirst(rows, bsz) ==
    [rows |-> rows,
     shape |-> transpose(Hidden(rows, bsz), <<1, 0, 2>>).shape]

\* lines 1034-1043: the tuple of the values that are not None, or the mapping
returned(return_dict, output, mems, hiddens, attns) ==
    LET all == <<[key |-> "last_hidden_state", val |-> Some(output)],
                 [key |-> "mems", val |-> mems],
                 [key |-> "hidden_states", val |-> hiddens],
                 [key |-> "attentions", val |-> attns]>>
    IN  IF ~return_dict
        THEN [form |-> "tuple",
              items |-> SelectSeq(all, LAMBDA it : it.val # None)]
        ELSE [form |-> "dict", items |-> all]

\* lines 998-1043
Finish ==
    /\ fw_pc = "layers"
    /\ fw_layers_run = self.n_layer
    /\ LET l == Get(fw_loc)
           hs == IF fw_args.output_hidden_states
                 THEN Some(Append(Get(fw_hidden_states),
                                  StreamsOf(fw_output_h, fw_output_g)))
                 ELSE fw_hidden_states
           output == BatchFirst(IF fw_output_g # None
                                THEN Get(fw_output_g) ELSE fw_output_h,
                                l.bsz)
           mems == IF ~l.use_mems THEN None ELSE Some(fw_new_mems)
           hiddens == IF fw_args.output_hidden_states
                      THEN LET flat == Flatten(Get(hs))
                           IN  Some([k \in 1..Len(flat) |->
                                        BatchFirst(flat[k], l.bsz)])
                      ELSE hs
           attns == IF fw_args.output_attentions
                    THEN LET at == Get(fw_attentions)
                         IN  Some([k \in 1..Len(at) |->
                                [s \in 1..Len(at[k]) |->
                                    transpose(at[k][s], <<2, 3, 0, 1>>).shape]])
                    ELSE fw_attentions
       IN  /\ fw_hidden_states' = hs
           /\ fw_ret' = Some(returned(fw_args.return_dict, output, mems,
                                      hiddens, attns))
           /\ fw_pc' = "returned"
    /\ UNCHANGED <<self, pureVars, memVars, shiftVars, posVars,
                   coreVars,
                   fw_log, fw_args, fw_loc, fw_attn_mask,
                   fw_non_tgt_mask, fw_output_h, fw_output_g, fw_pos_emb,
                   fw_seg_mat,
                   fw_new_mems, fw_attentions, fw_layers_run, fw_exc>>

NextFwd == Enter \/ DataMask \/ Prepare \/ LayerStep \/ Finish

-----------------------------------------------------------------------------
(* Calls of forward *)

\* the tensors of a shape with entries 0 and 1
Binary(shape) == {Tensor(shape, d) : d \in [1..Prod(shape) -> {0, 1}]}

\* per-layer memories of length m, or no memories
MemsOf(n_layer, M) ==
    {None} \cup {Some([i \in 1..n_layer |-> Some(Rows("mem", i, m))]) :
                    m \in M}

\* calls that differ in what they are given: ids, embeddings, memories,
\* padding masks, a target mapping, on models of every attention type
FlowCall ==
    \E n \in 1..MaxLayer, b \in 1..MaxBsz, q \in 1..MaxQlen :
        /\ self \in [mem_len : {None, Some(1)}, reuse_len : {None},
                     same_length : {FALSE}, attn_type : {"bi", "uni", "tri"},
                     bi_data : {FALSE}, clamp_len : {-1}, n_layer : {n}, training : {FALSE}]
        /\ fw_args \in
              [input_ids : Opt({ShapeOnly(<<b, q>>)}),
               inputs_embeds : Opt({ShapeOnly(<<b, q, DModel>>)}),
               token_type_ids : {None},
               attention_mask : Opt({Arr(<<b, q>>, LAMBDA idx : 1)}),
               input_mask : Opt({zeros(<<b, q>>)}),
               perm_mask : {None},
               target_mapping : Opt({ShapeOnly(<<b, 1, q>>)}),
               mems : MemsOf(n, 1..MaxMlen),
               use_mems_train : {FALSE}, use_mems_eval : BOOLEAN,
               output_attentions : {FALSE}, output_hidden_states : {FALSE},
               return_dict : {FALSE}]

\* calls on token ids that differ in the mode and in what they ask for
OutCall ==
    \E n \in 1..MaxLayer, q \in 1..MaxQlen :
        /\ self \in [mem_len : {None, Some(1)}, reuse_len : {None},
                     same_length : {FALSE}, attn_type : {"bi", "uni"},
                     bi_data : {FALSE}, clamp_len : {-1}, n_layer : {n}, training : BOOLEAN]
        /\ fw_args \in
              [input_ids : {Some(ShapeOnly(<<1, q>>))},
               inputs_embeds : {None}, token_type_ids : {None},
               attention_mask : {None}, input_mask : {None},
               perm_mask : {None}, target_mapping : {None}, mems : {None},
               use_mems_train : BOOLEAN, use_mems_eval : BOOLEAN,
               output_attentions : BOOLEAN, output_hidden_states : BOOLEAN,
               return_dict : BOOLEAN]

InitFwd ==
    /\ MemIdle
    /\ ShiftIdle
    /\ PosIdle
    /\ EinIdle
    /\ CreateMaskIdle
    /\ CoreIdle
    /\ FwdLocalsUnset
    /\ FirstCall
    /\ fw_pc = "call"
    /\ (FlowCall \/ OutCall)

SpecFwd == InitFwd /\ [][NextFwd]_vars

\* the number of mask entries a call is given
MaskBits(a) ==
    (IF a.attention_mask = None THEN 0
     ELSE Len(Get(a.attention_mask).data))
    + (IF a.input_mask = None THEN 0 ELSE Len(Get(a.input_mask).data))
    + (IF a.perm_mask = None THEN 0 ELSE Len(Get(a.perm_mask).data))

\* the 0/1 tensors of a shape, or none where the shape is too large
MasksOf(shape) ==
    IF Prod(shape) <= MaxMaskBits THEN Opt(Binary(shape)) ELSE {None}

\* calls on token ids that differ in their masks
MaskCall ==
    \E b \in 1..MaskBsz, q \in 1..MaskQlen :
        /\ self \in {c \in [mem_len : {None}, reuse_len : {None},
                            same_length : BOOLEAN, attn_type : {"bi", "uni"},
                            bi_data : {FALSE}, clamp_len : {-1}, n_layer : {1},
                            training : {FALSE}] :
                        c.same_length => c.attn_type = "uni"}
        /\ fw_args \in
              {a \in [input_ids : {Some(ShapeOnly(<<b, q>>))},
                      inputs_embeds : {None}, token_type_ids : {None},
                      attention_mask : MasksOf(<<b, q>>),
                      input_mask : MasksOf(<<b, q>>),
                      perm_mask : MasksOf(<<b, q, q>>),
                      target_mapping : Opt({ShapeOnly(<<b, 1, q>>)}),
                      mems : MemsOf(1, {MaskMlen}),
                      use_mems_train : {FALSE}, use_mems_eval : {FALSE},
                      output_attentions : {FALSE},
                      output_hidden_states : {FALSE},
                      return_dict : {FALSE}] :
                  /\ a.attention_mask = None \/ a.input_mask = None
                  /\ MaskBits(a) <= MaxMaskBits}

\* calls on token ids that differ in their segment ids and in the memory
SegCall ==
    \E b \in 1..MaxBsz, q \in 1..MaxQlen :
        /\ self \in [mem_len : {None}, reuse_len : {None},
                     same_length : {FALSE}, attn_type : {"bi", "uni"},
                     bi_data : {FALSE}, clamp_len : {-1}, n_layer : {1},
                     training : {FALSE}]
        /\ fw_args \in
              [input_ids : {Some(ShapeOnly(<<b, q>>))},
               inputs_embeds : {None},
               token_type_ids : MasksOf(<<b, q>>),
               attention_mask : {None}, input_mask : {None},
               perm_mask : {None}, target_mapping : {None},
               mems : MemsOf(1, 1..MaxMlen),
               use_mems_train : {FALSE}, use_mems_eval : {FALSE},
               output_attentions : {FALSE}, output_hidden_states : {FALSE},
               return_dict : {FALSE}]

InitSeg ==
    /\ MemIdle
    /\ ShiftIdle
    /\ PosIdle
    /\ EinIdle
    /\ CreateMaskIdle
    /\ CoreIdle
    /\ FwdLocalsUnset
    /\ FirstCall
    /\ fw_pc = "call"
    /\ SegCall

SpecSeg == InitSeg /\ [][NextFwd]_vars

InitMask ==
    /\ MemIdle
    /\ ShiftIdle
    /\ PosIdle
    /\ EinIdle
    /\ CreateMaskIdle
    /\ CoreIdle
    /\ FwdLocalsUnset
    /\ FirstCall
    /\ fw_pc = "call"
    /\ MaskCall

SpecMask == InitMask /\ [][NextFwd]_vars

-----------------------------------------------------------------------------
(* Calls of forward one after the other on the same model *)

\* calls on token ids, with and without the memories asked for
SeqArgs ==
    [input_ids : {Some(ShapeOnly(<<1, q>>)) : q \in 1..MaxQlen},
     inputs_embeds : {None}, token_type_ids : {None},
     attention_mask : {None}, input_mask : {None},
     perm_mask : {None}, target_mapping : {None}, mems : {None},
     use_mems_train : {FALSE}, use_mems_eval : BOOLEAN,
     output_attentions : {FALSE}, output_hidden_states : {FALSE},
     return_dict : {FALSE}]

InitSeq ==
    /\ self \in [mem_len : {None, Some(1)}, reuse_len : {None},
                 same_length : {FALSE}, attn_type : {"bi"},
                 bi_data : {FALSE}, clamp_len : {-1}, n_layer : {1}, training : {FALSE}]
    /\ MemIdle
    /\ ShiftIdle
    /\ PosIdle
    /\ EinIdle
    /\ CreateMaskIdle
    /\ CoreIdle
    /\ FwdLocalsUnset
    /\ FirstCall
    /\ fw_pc = "call"
    /\ fw_args \in SeqArgs

\* the call is over and the caller makes the next one
NextCall ==
    /\ fw_pc \in {"returned", "raised"}
    /\ Len(fw_log) < MaxEarlier
    /\ fw_log' = Append(fw_log, [args |-> fw_args, pc |-> fw_pc,
                                 ret |-> fw_ret, exc |-> fw_exc])
    /\ fw_args' \in SeqArgs
    /\ fw_pc' = "call"
    /\ fw_loc' = None
    /\ fw_attn_mask' = None
    /\ fw_non_tgt_mask' = None
    /\ fw_output_h' = <<>>
    /\ fw_output_g' = None
    /\ fw_pos_emb' = Raised
    /\ fw_seg_mat' = None
    /\ fw_new_mems' = <<>>
    /\ fw_hidden_states' = None
    /\ fw_attentions' = None
    /\ fw_layers_run' = 0
    /\ fw_ret' = None
    /\ fw_exc' = None
    /\ UNCHANGED <<self, pureVars, memVars, shiftVars, posVars, coreVars>>

NextSeq == NextFwd \/ NextCall

SpecSeq == InitSeq /\ [][NextSeq]_vars

-----------------------------------------------------------------------------
(* Calls of relative_positional_encoding, as forward makes them at line    *)
(* 950 with klen = mlen + qlen.                                            *)

InitPos ==
    /\ self \in [mem_len : {None}, reuse_len : {None}, same_length : {FALSE},
                 attn_type : {"bi", "uni"}, bi_data : BOOLEAN,
                 clamp_len : -1..MaxClamp, n_layer : {1},
                 training : {FALSE}]
    /\ MemIdle
    /\ ShiftIdle
    /\ PosIdle
    /\ EinIdle
    /\ CreateMaskIdle
    /\ CoreIdle
    /\ FwdIdle

PosCall ==
    /\ \E qlen \in 1..PosMaxQlen, mlen \in 0..PosMaxMlen, bsz \in 1..MaxBsz :
         /\ ps_args' = Some([qlen |-> qlen, klen |-> mlen + qlen,
                             bsz |-> bsz])
         /\ ps_fwd' = fwd_pos_seq(self, qlen, mlen + qlen)
         /\ ps_bwd' = IF self.bi_data
                      THEN bwd_pos_seq(self, qlen, mlen + qlen)
                      ELSE <<>>
         /\ ps_emb' = relative_positional_encoding(self, qlen, mlen + qlen,
                                                   bsz)
    /\ UNCHANGED <<self, pureVars, memVars, shiftVars, fwdVars, coreVars>>

NextPos == PosCall

SpecPos == InitPos /\ [][NextPos]_vars

-----------------------------------------------------------------------------
(* rel_attn_core on values, called as a layer calls it: the position keys  *)
(* are the projection of relative_positional_encoding(qlen, klen, bsz).    *)
(* exp(score) of an unmasked key is a positive integer and a probability   *)
(* is a fraction [num, den], den the same along one query row.             *)

RECURSIVE SeqSum(_)
SeqSum(seq) == IF seq = <<>> THEN 0 ELSE Head(seq) + SeqSum(Tail(seq))

\* the position sequence that each batch column of pos_emb embeds
pos_seqs(slf, qlen, klen, bsz) ==
    IF slf.bi_data
    THEN [b \in 1..(2 * (bsz \div 2)) |->
             IF b <= bsz \div 2 THEN fwd_pos_seq(slf, qlen, klen)
             ELSE bwd_pos_seq(slf, qlen, klen)]
    ELSE [b \in 1..bsz |-> fwd_pos_seq(slf, qlen, klen)]

\* k_head_r of a layer: the projection of r on self.r
k_head_r_of(r) ==
    IF r.err THEN Raised
    ELSE reshape(matmul(r, Weight), <<r.shape[1], r.shape[2], NHead, DHead>>)

\* lines 165-170: ef, the integer 0 or at each [b, n, i, j] the set of the
\* segment channels s whose score of query i enters the sum
ef_of(a) ==
    IF a.seg_mat = None THEN 0
    ELSE [idx \in (1..a.bsz) \X (1..NHead) \X (1..a.qlen)
                  \X (1..(a.mlen + a.qlen)) |->
             {s \in 0..1 :
                 At(Get(a.seg_mat), <<idx[3], idx[4], idx[1], s + 1>>) # 0}]

\* exp of the score of query i and key j before masking
exp_score(a, b, n, i, j) == 1 + ((a.seed * j + i + n + b) % MaxWeight)

\* a mask that hides nothing
mask_ignored(a, b, i, j) == FALSE

\* lines 175-177: whether 1e30 is taken off the score of key j
mask_at(a, b, i, j) ==
    a.attn_mask # None /\ At(Get(a.attn_mask), <<i, j, b, 1>>) > 0

\* line 180: the softmax numerators of the row of query i; a key that
\* 1e30 was taken off has exp 0 next to a key that kept its score, and
\* keys that all lost 1e30 are left with equal scores
softmax_row(a, b, n, i) ==
    LET klen == a.mlen + a.qlen
    IN  IF \A j \in 1..klen : mask_at(a, b, i, j)
        THEN [j \in 1..klen |-> 1]
        ELSE [j \in 1..klen |->
                 IF mask_at(a, b, i, j) THEN 0 ELSE exp_score(a, b, n, i, j)]

\* lines 180-185: attn_prob after softmax, dropout and the head mask;
\* drop is None or {the index of the entry that dropout zeroes}, the
\* entries it keeps being scaled by 1 / (1 - rate), and slf.dropout is
\* the dropout rate in tenths
attn_prob_of(slf, a, drop) ==
    LET active == slf.training /\ slf.dropout > 0
        klen == a.mlen + a.qlen
    IN  Bind([n \in 1..NHead |->
                 IF a.head_mask = None THEN 1 ELSE Get(a.head_mask)[n]],
             LAMBDA head :
        Bind([r \in (1..a.bsz) \X (1..NHead) \X (1..a.qlen) |->
                 softmax_row(a, r[1], r[2], r[3])], LAMBDA rows :
        Bind([r \in (1..a.bsz) \X (1..NHead) \X (1..a.qlen) |->
                 (IF active THEN 10 - slf.dropout ELSE 1) * SeqSum(rows[r])],
             LAMBDA dens :
            [idx \in (1..a.bsz) \X (1..NHead) \X (1..a.qlen) \X (1..klen) |->
                [num |-> (IF drop = {idx} THEN 0
                          ELSE IF active
                          THEN 10 * rows[<<idx[1], idx[2], idx[3]>>][idx[4]]
                          ELSE rows[<<idx[1], idx[2], idx[3]>>][idx[4]])
                         * head[idx[2]],
                 den |-> dens[<<idx[1], idx[2], idx[3]>>]]])))

\* the configurations of a model whose layers call rel_attn_core
CoreConfigs ==
    [mem_len : {None}, reuse_len : {None}, same_length : {FALSE},
     attn_type : {"bi", "uni"}, bi_data : BOOLEAN, clamp_len : -1..MaxClamp,
     n_layer : {1}, training : BOOLEAN, dropout : 0..1]

\* the subsets of S of at most c members
RECURSIVE SubsetsUpTo(_, _)
SubsetsUpTo(S, c) ==
    IF c = 0 THEN {{}}
    ELSE LET less == SubsetsUpTo(S, c - 1)
         IN  less \cup {T \cup {x} : T \in less, x \in S}

\* the masks of a shape with at most CoreMaskBits entries set
CoreMasks(shape) ==
    {Tensor(shape, [f \in 1..Prod(shape) |-> IF f \in S THEN 1 ELSE 0]) :
        S \in SubsetsUpTo(1..Prod(shape), CoreMaskBits)}

\* the arguments of a call of rel_attn_core, the tensors q_head, k_head_h
\* and v_head_h being given by their sizes
CoreArgs(Q, M, B, seeds, masked, heads, segs) ==
    UNION {[qlen : {q}, mlen : {m}, bsz : {b}, seed : seeds,
            attn_mask : IF masked THEN Opt(CoreMasks(<<q, m + q, b, 1>>))
                        ELSE {None},
            head_mask : heads,
            seg_mat : IF segs
                      THEN {seg_mat_of(t, m, b) :
                               t \in {None,
                                      Some(Arr(<<q, b>>,
                                               LAMBDA idx : idx[1] % 2))}}
                      ELSE {None}] :
           q \in Q, m \in M, b \in B}

\* calls that differ in the scores, the masks and the dropout
InitProb ==
    /\ self \in {c \in CoreConfigs :
                    /\ c.attn_type = "bi"
                    /\ ~c.bi_data
                    /\ c.clamp_len = -1}
    /\ MemIdle
    /\ ShiftIdle
    /\ PosIdle
    /\ EinIdle
    /\ CreateMaskIdle
    /\ FwdIdle
    /\ co_args \in {Some(a) :
                      a \in CoreArgs(1..CoreMaxQlen, 0..CoreMaxMlen, {1},
                                     {1}, TRUE,
                                     {None,
                                      Some([n \in 1..NHead |-> 1]),
                                      Some([n \in 1..NHead |->
                                               IF n = 1 THEN 0 ELSE 1])},
                                     FALSE)}
    /\ co_out = None

\* calls that differ in the position keys
InitDist ==
    /\ self \in {c \in CoreConfigs : ~c.training /\ c.dropout = 0}
    /\ MemIdle
    /\ ShiftIdle
    /\ PosIdle
    /\ EinIdle
    /\ CreateMaskIdle
    /\ FwdIdle
    /\ co_args \in {Some(a) :
                      a \in CoreArgs(1..CoreMaxQlen, 0..CoreMaxMlen,
                                     1..MaxBsz, {1}, FALSE, {None}, TRUE)}
    /\ co_out = None

\* lines 141-192
CoreCall ==
    /\ co_args # None
    /\ co_out = None
    /\ LET a == Get(co_args)
           klen == a.mlen + a.qlen
           heads(n) == ShapeOnly(<<n, a.bsz, NHead, DHead>>)
       IN  \E k_head_r \in {k_head_r_of(
                               relative_positional_encoding(self, a.qlen,
                                                            klen, a.bsz))} :
           \E shaped \in {rel_attn_core(heads(a.qlen), heads(klen),
                                        heads(klen), k_head_r, a.seg_mat,
                                        IF a.attn_mask = None THEN None
                                        ELSE Some(ShapeOnly(
                                                 Get(a.attn_mask).shape)))} :
           \E drop \in IF self.training /\ self.dropout > 0
                       THEN Opt({<<1, NHead, 1, j>> : j \in 1..klen})
                       ELSE {None} :
               co_out' = IF shaped.err
                         THEN Some([err |-> TRUE])
                         ELSE Some([err |-> FALSE,
                                    bd |-> shaped.bd,
                                    ef |-> ef_of(a),
                                    attn_prob |-> attn_prob_of(self, a, drop),
                                    attn_vec |-> shaped.attn_vec])
    /\ UNCHANGED <<self, pureVars, memVars, shiftVars, fwdVars, posVars,
                   co_args>>

NextCore == CoreCall

SpecProb == InitProb /\ [][NextCore]_vars

SpecDist == InitDist /\ [][NextCore]_vars

-----------------------------------------------------------------------------
(* A chain of cache_mem calls, each fed the result of the one before *)

\* the hidden states of call c: positions 1..n
CurrOut(c, n) == [t \in 1..n |-> <<c, t>>]

InitMem ==
    /\ self \in Configs
    /\ MemIdle
    /\ ShiftIdle
    /\ PosIdle
    /\ EinIdle
    /\ CreateMaskIdle
    /\ CoreIdle
    /\ FwdIdle

CacheMemCall ==
    /\ mc_calls < MaxCalls
    /\ \E n \in 1..MaxOut :
         LET curr_out == CurrOut(mc_calls + 1, n)
         IN  /\ mc_prev' = Some(cache_mem(self, curr_out, mc_prev))
             /\ mc_fed' = mc_fed \o Eligible(self, curr_out)
             /\ mc_out' = curr_out
    /\ mc_was' = mc_prev
    /\ mc_calls' = mc_calls + 1
    /\ UNCHANGED <<self, pureVars, shiftVars, fwdVars, posVars, coreVars>>

NextMem == CacheMemCall

SpecMem == InitMem /\ [][NextMem]_vars

-----------------------------------------------------------------------------
(* A call of rel_shift_bnij *)

ShiftShapes ==
    {<<b, n, q, p>> : b \in 1..ShiftMaxBN, n \in 1..ShiftMaxBN,
                      q \in 1..ShiftMaxQ, p \in 1..ShiftMaxP}

InitShift ==
    /\ self \in {c \in Configs : c.mem_len = None /\ c.reuse_len = None}
    /\ MemIdle
    /\ PosIdle
    /\ EinIdle
    /\ CreateMaskIdle
    /\ CoreIdle
    /\ FwdIdle
    /\ \E s \in ShiftShapes :
         /\ sh_x = Iota(s)
         /\ sh_klen \in 1..s[4]
    /\ sh_out = None

RelShiftCall ==
    /\ sh_out = None
    /\ sh_out' = Some(rel_shift_bnij(sh_x, sh_klen))
    /\ UNCHANGED <<self, pureVars, memVars, sh_x, sh_klen, fwdVars, posVars,
                   coreVars>>

NextShift == RelShiftCall

SpecShift == InitShift /\ [][NextShift]_vars

-----------------------------------------------------------------------------
(* einsum4x4 by the values of its operands.  An equation is the sequence   *)
(* of its characters; list(set(...)) yields the elements of a set in an    *)
(* order that the caller does not control.                                 *)

EinMaxDim == 2  \* size of every axis of the operands of einsum4x4

\* re.split(",|->", equation)
RECURSIVE re_split(_)
re_split(s) ==
    IF s = <<>> THEN << <<>> >>
    ELSE IF Head(s) = ","
         THEN << <<>> >> \o re_split(Tail(s))
         ELSE IF Head(s) = "-" /\ Len(s) >= 2 /\ s[2] = ">"
              THEN << <<>> >> \o re_split(Tail(Tail(s)))
              ELSE LET r == re_split(Tail(s))
                   IN  << <<Head(s)>> \o Head(r) >> \o Tail(r)

\* list(S) of a Python set: every order the iteration can take
Orders(S) ==
    {o \in [1..Cardinality(S) -> S] :
        \A a, b \in 1..Cardinality(S) : o[a] = o[b] => a = b}

\* idx.index(l), for a letter that idx holds
index(idx, l) ==
    (CHOOSE k \in 1..Len(idx) :
        idx[k] = l /\ \A m \in 1..(k - 1) : idx[m] # l) - 1

\* set(idx_x + idx_y) - set(idx_z)
repeated_idx_of(idx_x, idx_y, idx_z) ==
    (Letters(idx_x) \cup Letters(idx_y)) \ Letters(idx_z)

\* set(idx_x) - set(idx_y)
unique_idx_x_of(idx_x, idx_y) == Letters(idx_x) \ Letters(idx_y)

\* set(idx_y) - set(idx_x)
unique_idx_y_of(idx_x, idx_y) == Letters(idx_y) \ Letters(idx_x)

\* set(idx_x) & set(idx_y) - set(repeated_idx): the difference binds first
common_idx_of(idx_x, idx_y, idx_z) ==
    Letters(idx_x)
      \cap (Letters(idx_y) \ repeated_idx_of(idx_x, idx_y, idx_z))

\* the four lists that einsum4x4 makes out of sets, in every order
IndexLists(idx_x, idx_y, idx_z) ==
    [repeated_idx : Orders(repeated_idx_of(idx_x, idx_y, idx_z)),
     unique_idx_x : Orders(unique_idx_x_of(idx_x, idx_y)),
     unique_idx_y : Orders(unique_idx_y_of(idx_x, idx_y)),
     common_idx : Orders(common_idx_of(idx_x, idx_y, idx_z))]

\* [idx.index(i) for i in new_idx]
perm_of(idx, new_idx) == [k \in 1..Len(new_idx) |-> index(idx, new_idx[k])]

\* the permutation of the result taken the wrong way round
perm_z_inverted(new_idx_z, idx_z) == perm_of(idx_z, new_idx_z)

\* perm_z = [new_idx_z.index(i) for i in idx_z]
perm_z_of(new_idx_z, idx_z) == perm_of(new_idx_z, idx_z)

\* paddle.matmul(x=x, y=y, transpose_y=True) of two operands of one rank
matmul_transpose_y(x, y) ==
    IF x.err \/ y.err \/ Len(x.shape) # Len(y.shape) \/ Len(x.shape) < 2
    THEN Raised
    ELSE LET n == Len(x.shape)
             xb == SubSeq(x.shape, 1, n - 2)
             yb == SubSeq(y.shape, 1, n - 2)
         IN  IF x.shape[n] # y.shape[n] \/ ~Broadcastable(xb, yb)
             THEN Raised
             ELSE Build([a \in 1..(n - 2) |-> Max(xb[a], yb[a])]
                        \o <<x.shape[n - 1], y.shape[n - 1]>>,
                        HasData(x) /\ HasData(y),
                        LAMBDA idx :
                            SeqSum([k \in 1..x.shape[n] |->
                                       At(x, SubSeq(idx, 1, n - 1) \o <<k>>)
                                       * At(y, SubSeq(idx, 1, n - 2)
                                               \o <<idx[n], k>>)]))

\* einsum4x4(equation, x, y) when its sets are read in the orders of lists
einsum4x4_read(equation, lists, x, y) ==
    LET parts == re_split(equation)
    IN  IF Len(parts) # 3 THEN Raised
        ELSE LET idx_x == parts[1]
                 idx_y == parts[2]
                 idx_z == parts[3]
                 new_idx_x == lists.common_idx \o lists.unique_idx_x
                              \o lists.repeated_idx
                 new_idx_y == lists.common_idx \o lists.unique_idx_y
                              \o lists.repeated_idx
                 new_idx_z == lists.common_idx \o lists.unique_idx_x
                              \o lists.unique_idx_y
             IN  IF \/ \E l \in Letters(new_idx_x) : l \notin Letters(idx_x)
                    \/ \E l \in Letters(new_idx_y) : l \notin Letters(idx_y)
                    \/ \E l \in Letters(idx_z) : l \notin Letters(new_idx_z)
                 THEN Raised
                 ELSE Bind(transpose(x, perm_of(idx_x, new_idx_x)),
                           LAMBDA xt :
                      Bind(transpose(y, perm_of(idx_y, new_idx_y)),
                           LAMBDA yt :
                      Bind(matmul_transpose_y(xt, yt), LAMBDA z :
                      transpose(z, perm_z_of(new_idx_z, idx_z)))))

\* the four equations that rel_attn_core passes to einsum4x4
Equations ==
    {ibnd \o <<",">> \o jbnd \o <<"-", ">">> \o bnij,
     ibnd \o <<",">> \o isnd \o <<"-", ">">> \o ibns,
     ijbs \o <<",">> \o ibns \o <<"-", ">">> \o bnij,
     bnij \o <<",">> \o jbnd \o <<"-", ">">> \o ibnd}

\* the shape of the operand that idx names when the axis l has size dim[l]
ShapeBy(idx, dim) == [k \in 1..Len(idx) |-> dim[idx[k]]]

\* two 4-D operands whose axes agree as the equation asks, every entry a
\* tag of its own
EinArgs ==
    UNION {{[equation |-> e,
             x |-> Iota(ShapeBy(re_split(e)[1], dim)),
             y |-> Arr(ShapeBy(re_split(e)[2], dim),
                       LAMBDA idx :
                           Prod(ShapeBy(re_split(e)[1], dim))
                             + FlatOff(ShapeBy(re_split(e)[2], dim), idx)
                             + 1)] :
              dim \in [Letters(re_split(e)[1]) \cup Letters(re_split(e)[2])
                         -> 1..EinMaxDim]} :
           e \in Equations}

InitEin ==
    /\ self \in {c \in Configs : c.mem_len = None /\ c.reuse_len = None}
    /\ MemIdle
    /\ ShiftIdle
    /\ PosIdle
    /\ CoreIdle
    /\ FwdIdle
    /\ CreateMaskIdle
    /\ ein_args \in {Some(a) : a \in EinArgs}
    /\ ein_order = None
    /\ ein_out = None

EinsumCall ==
    /\ ein_out = None
    /\ \E lists \in IndexLists(re_split(Get(ein_args).equation)[1],
                               re_split(Get(ein_args).equation)[2],
                               re_split(Get(ein_args).equation)[3]) :
         /\ ein_order' = Some(lists)
         /\ ein_out' = Some(einsum4x4_read(Get(ein_args).equation, lists,
                                           Get(ein_args).x, Get(ein_args).y))
    /\ UNCHANGED <<self, memVars, shiftVars, fwdVars, posVars, coreVars,
                   createMaskVars, ein_args>>

NextEin == EinsumCall

SpecEin == InitEin /\ [][NextEin]_vars

-----------------------------------------------------------------------------
(* Calls of create_mask *)

MaskMaxQlen == 5    \* qlen of a call of create_mask
MaskMaxMlen == 4    \* mlen of a call of create_mask

InitCreateMask ==
    /\ self \in [mem_len : {None}, reuse_len : {None},
                 same_length : BOOLEAN, attn_type : {"bi", "uni"},
                 bi_data : BOOLEAN, clamp_len : {-1}, n_layer : {1},
                 training : {FALSE}]
    /\ MemIdle
    /\ ShiftIdle
    /\ PosIdle
    /\ CoreIdle
    /\ FwdIdle
    /\ EinIdle
    /\ cm_args = None
    /\ cm_out = None

CreateMaskCall ==
    /\ \E qlen \in 1..MaskMaxQlen, mlen \in 0..MaskMaxMlen :
         /\ cm_args' = Some([qlen |-> qlen, mlen |-> mlen])
         /\ cm_out' = Some(create_mask(self, qlen, mlen))
    /\ UNCHANGED <<self, memVars, shiftVars, fwdVars, posVars, coreVars,
                   einVars>>

NextCreateMask == CreateMaskCall

SpecCreateMask == InitCreateMask /\ [][NextCreateMask]_vars

-----------------------------------------------------------------------------
(* Chains of forward calls on one model: the caller hands the memories     *)
(* that a call returned to the next call.                                  *)

\* calls on token ids with or without memories of the caller
ChainArgs(n_layer) ==
    [input_ids : {Some(ShapeOnly(<<1, q>>)) : q \in 1..MaxQlen},
     inputs_embeds : {None}, token_type_ids : {None},
     attention_mask : {None}, input_mask : {None},
     perm_mask : {None}, target_mapping : {None},
     mems : MemsOf(n_layer, 1..MaxMlen),
     use_mems_train : {FALSE}, use_mems_eval : BOOLEAN,
     output_attentions : {FALSE}, output_hidden_states : {FALSE},
     return_dict : {TRUE}]

InitChain ==
    /\ self \in [mem_len : Opt(0..MaxMemLen), reuse_len : {None, Some(1)},
                 same_length : {FALSE}, attn_type : {"bi"},
                 bi_data : {FALSE}, clamp_len : {-1},
                 n_layer : 1..MaxLayer, training : {FALSE}]
    /\ MemIdle
    /\ ShiftIdle
    /\ PosIdle
    /\ EinIdle
    /\ CreateMaskIdle
    /\ CoreIdle
    /\ FwdLocalsUnset
    /\ FirstCall
    /\ fw_pc = "call"
    /\ fw_args \in ChainArgs(self.n_layer)

\* outputs.mems of a call that returned a mapping
mems_returned(ret) == ret.items[2].val

\* the call returned memories and the caller passes them to the next call
FeedBack ==
    /\ fw_pc = "returned"
    /\ mems_returned(Get(fw_ret)) # None
    /\ Len(fw_log) < MaxEarlier
    /\ fw_log' = Append(fw_log, [args |-> fw_args, pc |-> fw_pc,
                                 ret |-> fw_ret, exc |-> fw_exc])
    /\ \E a \in ChainArgs(self.n_layer) :
         LET new_mems == Get(mems_returned(Get(fw_ret)))
         IN  fw_args' = [a EXCEPT
                           !.mems = Some([i \in 1..Len(new_mems) |->
                                             Some(new_mems[i])]),
                           !.use_mems_eval = TRUE]
    /\ fw_pc' = "call"
    /\ fw_loc' = None
    /\ fw_attn_mask' = None
    /\ fw_non_tgt_mask' = None
    /\ fw_output_h' = <<>>
    /\ fw_output_g' = None
    /\ fw_pos_emb' = Raised
    /\ fw_seg_mat' = None
    /\ fw_new_mems' = <<>>
    /\ fw_hidden_states' = None
    /\ fw_attentions' = None
    /\ fw_layers_run' = 0
    /\ fw_ret' = None
    /\ fw_exc' = None
    /\ UNCHANGED <<self, pureVars, memVars, shiftVars, posVars, coreVars>>

NextChain == NextFwd \/ FeedBack

SpecChain == InitChain /\ [][NextChain]_vars

-----------------------------------------------------------------------------
\* C1: with mem_len = M > 0, after any chain of cache_mem calls the memory
\* is never longer than M and holds exactly the most recent M eligible
\* positions fed so far, in order (all of them while fewer than M were fed).
C1_MemIsRecentWindow ==
    (mc_calls > 0 /\ self.mem_len # None /\ Get(self.mem_len) > 0) =>
        LET M == Get(self.mem_len)
            mem == Get(mc_prev)
        IN  /\ Len(mem) <= M
            /\ mem = SubSeq(mc_fed, Max(Len(mc_fed) - M, 0) + 1, Len(mc_fed))

\* a chain of three calls that has dropped old positions from a full memory
C1_Witness ==
    /\ mc_calls = 3
    /\ self.mem_len = Some(3)
    /\ Len(mc_fed) = 6
    /\ Len(Get(mc_prev)) = 3

-----------------------------------------------------------------------------
\* shape and result of the finished rel_shift_bnij call
ShB == sh_x.shape[1]
ShN == sh_x.shape[2]
ShQ == sh_x.shape[3]
ShP == sh_x.shape[4]
ShRes == Get(sh_out)

\* C3 as stated: for every input shape [b, n, q, p] and every klen = k with
\* k <= p, rel_shift_bnij returns a tensor of shape [b, n, q, k] without
\* failing.
C3_Original ==
    (sh_out # None /\ sh_klen <= ShP) =>
        /\ ~ShRes.err
        /\ ShRes.shape = <<ShB, ShN, ShQ, sh_klen>>

\* C3 amended: for every input shape [b, n, q, p] and every klen = k with
\* 1 <= k <= p - 1, rel_shift_bnij returns a tensor of shape [b, n, q, k]
\* without failing (the last axis has p - 1 entries left to select from).
C3_ShiftShape ==
    (sh_out # None /\ sh_klen <= ShP - 1) =>
        /\ ~ShRes.err
        /\ ShRes.shape = <<ShB, ShN, ShQ, sh_klen>>

\* a finished shift of a [2, 2, 3, 4] input that selects fewer entries than
\* the shifted rows hold
C3_Witness ==
    /\ sh_out # None
    /\ sh_x.shape = <<2, 2, 3, 4>>
    /\ sh_klen = 2
    /\ ShRes.shape = <<2, 2, 3, 2>>

\* C4 as stated: for a single batch element and head, row i of the result
\* is row i of the input shifted left by i positions and truncated to klen.
C4_Original ==
    (sh_out # None /\ ShB = 1 /\ ShN = 1 /\ ~ShRes.err) =>
        \A i \in 0..(ShQ - 1) : \A j \in 0..(sh_klen - 1) :
            (j + i <= ShP - 1) =>
                ShRes.data[i * sh_klen + j + 1] = i * ShP + (j + i) + 1

\* C4 amended: for a single batch element and head, entry j of row i of the
\* result is entry j + (q - i) of row i of the input, that is row i shifted
\* left by q - i positions and truncated to klen, for every i < q and
\* j < klen with j + q - i < p (all of the row when klen <= p - q).
C4_ShiftRows ==
    (sh_out # None /\ ShB = 1 /\ ShN = 1 /\ sh_klen <= ShP - 1) =>
        /\ ~ShRes.err
        /\ \A i \in 0..(ShQ - 1) : \A j \in 0..(sh_klen - 1) :
              (j + ShQ - i <= ShP - 1) =>
                  ShRes.data[i * sh_klen + j + 1]
                      = i * ShP + (j + ShQ - i) + 1

\* q = 2, p = 4, klen = 2: rows <<1,2,3,4>> and <<5,6,7,8>> become <<3,4>>
\* and <<6,7>>
C4_Witness ==
    /\ sh_out # None
    /\ sh_x.shape = <<1, 1, 2, 4>>
    /\ sh_klen = 2
    /\ ShRes.data = <<3, 4, 6, 7>>

-----------------------------------------------------------------------------
(* Calls of forward, by what they are given *)

\* token ids alone, on a model of a known attention type
IdsCall ==
    /\ fw_args.input_ids # None
    /\ fw_args.inputs_embeds = None
    /\ self.attn_type \in {"bi", "uni"}

\* at most one of input_mask and attention_mask
OneMask == fw_args.input_mask = None \/ fw_args.attention_mask = None

\* the call has returned or raised
Over == fw_pc \in {"returned", "raised"}

\* the call is past line 912: attn_mask and non_tgt_mask are final
MasksBuilt ==
    \/ fw_pc \in {"prepare", "layers", "returned"}
    \/ fw_pc = "raised" /\ fw_layers_run > 0

-----------------------------------------------------------------------------
\* C2: a content-only forward call (no target mapping) that is given
\* per-layer memories of length mlen > 0 attends, in every layer, over
\* klen = mlen + qlen key positions and completes without a shape error.
C2_ContentOnlyWithMems ==
    (IdsCall /\ OneMask /\ fw_args.target_mapping = None
     /\ fw_args.mems # None /\ Over) =>
        /\ fw_pc = "returned"
        /\ fw_layers_run = self.n_layer
        /\ Get(fw_loc).klen = Get(fw_loc).mlen + Get(fw_loc).qlen

-----------------------------------------------------------------------------
\* C5: a forward call with a target mapping runs every layer in two-stream
\* mode and returns the query stream of the last layer; a call without one
\* has no query stream and returns the content stream of the last layer.
C5_StreamsByTargetMapping ==
    (IdsCall /\ OneMask /\ fw_args.mems = None /\ Over) =>
        /\ fw_pc = "returned"
        /\ fw_layers_run = self.n_layer
        /\ LET out == Get(Get(fw_ret).items[1].val)
               l == Get(fw_loc)
           IN  IF fw_args.target_mapping # None
               THEN /\ fw_output_g # None
                    /\ out.rows = Rows("g", self.n_layer,
                                       Get(l.target_mapping).shape[1])
               ELSE /\ fw_output_g = None
                    /\ out.rows = Rows("h", self.n_layer, l.qlen)

-----------------------------------------------------------------------------
(* The masks of forward, entry by entry *)

\* the entry of a mask at query i, key j and batch element b
MaskAt(m, i, j, b) == At(m, <<i, j, b, 1>>)

\* what the masks of the caller put on key j for query i, lines 870-879
DataAt(i, j, b) ==
    (IF fw_args.input_mask # None
     THEN At(Get(fw_args.input_mask), <<b, j>>)
     ELSE IF fw_args.attention_mask # None
     THEN 1 - At(Get(fw_args.attention_mask), <<b, j>>)
     ELSE 0)
    + (IF fw_args.perm_mask # None
       THEN At(Get(fw_args.perm_mask), <<b, i, j>>)
       ELSE 0)

\* C6: whenever an attention mask exists, the mask of the content stream
\* (non_tgt_mask) is 0 at (query i, key mlen + i) for every i and batch
\* element and equals the mask of the query stream at every other entry; so
\* under unidirectional attention it still forbids every future position.
C6_ContentMask ==
    MasksBuilt =>
        IF fw_attn_mask = None
        THEN fw_non_tgt_mask = None
        ELSE /\ fw_non_tgt_mask # None
             /\ LET am == Get(fw_attn_mask)
                    nt == Get(fw_non_tgt_mask)
                    l == Get(fw_loc)
                IN  /\ nt.shape = <<l.qlen, l.klen, am.shape[3], 1>>
                    /\ \A i \in 1..l.qlen, j \in 1..l.klen,
                          b \in 1..nt.shape[3] :
                           MaskAt(nt, i, j, b) =
                               IF j = l.mlen + i THEN 0
                               ELSE MaskAt(am, i, j, b)
                    /\ self.attn_type = "uni" =>
                           \A i \in 1..l.qlen, j \in 1..l.klen,
                              b \in 1..nt.shape[3] :
                               j > l.mlen + i => MaskAt(nt, i, j, b) = 1

\* a unidirectional call with a memory whose permutation mask hides the
\* first position from itself: the content stream sees it all the same
C6_Witness ==
    /\ MasksBuilt
    /\ self.attn_type = "uni"
    /\ fw_args.perm_mask # None
    /\ Get(fw_loc).qlen = 2
    /\ Get(fw_loc).mlen = 1
    /\ MaskAt(Get(fw_attn_mask), 1, 2, 1) = 1
    /\ MaskAt(Get(fw_non_tgt_mask), 1, 2, 1) = 0
    /\ MaskAt(Get(fw_non_tgt_mask), 1, 3, 1) = 1

-----------------------------------------------------------------------------
\* C7 as stated: whenever a target mapping is supplied, the mask of the
\* query stream is 1 at (i, mlen + i) for every i and batch element.
C7_Original ==
    (MasksBuilt /\ fw_args.target_mapping # None) =>
        /\ fw_attn_mask # None
        /\ \A i \in 1..Get(fw_loc).qlen, b \in 1..Get(fw_loc).bsz :
               MaskAt(Get(fw_attn_mask), i, Get(fw_loc).mlen + i, b) = 1

\* C7: when a target mapping is supplied, the mask of the query stream is 1
\* at (i, mlen + i) exactly where the masks of the caller hide position i
\* from itself (input mask, or 1 - attention mask, of key i plus
\* perm_mask[i][i] positive); the causal mask adds nothing there, and a
\* bidirectional call without masks has no mask at all.
C7_QueryMaskHidesSelfIffData ==
    (MasksBuilt /\ fw_args.target_mapping # None) =>
        LET l == Get(fw_loc)
            NoData == /\ fw_args.input_mask = None
                      /\ fw_args.attention_mask = None
                      /\ fw_args.perm_mask = None
        IN  /\ fw_attn_mask = None <=> (self.attn_type = "bi" /\ NoData)
            /\ fw_attn_mask # None =>
                   \A i \in 1..l.qlen, b \in 1..l.bsz :
                       MaskAt(Get(fw_attn_mask), i, l.mlen + i, b) =
                           IF DataAt(i, i, b) > 0 THEN 1 ELSE 0

\* a unidirectional call with a target mapping whose permutation mask hides
\* position 1 from itself and not position 2
C7_Witness ==
    /\ MasksBuilt
    /\ fw_args.target_mapping # None
    /\ self.attn_type = "uni"
    /\ fw_args.perm_mask # None
    /\ Get(fw_loc).qlen = 2
    /\ MaskAt(Get(fw_attn_mask), 1, Get(fw_loc).mlen + 1, 1) = 1
    /\ MaskAt(Get(fw_attn_mask), 2, Get(fw_loc).mlen + 2, 1) = 0

-----------------------------------------------------------------------------
\* both token ids and embeddings
BothInputs == fw_args.input_ids # None /\ fw_args.inputs_embeds # None

\* neither token ids nor embeddings
NoInput == fw_args.input_ids = None /\ fw_args.inputs_embeds = None

\* C8: a forward call that gives both token ids and embeddings, or neither,
\* or that runs on a model whose attention type is neither "bi" nor "uni",
\* raises an error before any layer runs and before any memory is cached:
\* nothing is returned and no stream, mask or collected output is left.
C8_BadCallRaisesAtOnce ==
    ((BothInputs \/ NoInput \/ self.attn_type \notin {"bi", "uni"})
     /\ fw_pc # "call") =>
        /\ fw_pc = "raised"
        /\ fw_exc \in {Some("ValueError"), Some("ShapeError")}
        /\ (BothInputs \/ NoInput) => fw_exc = Some("ValueError")
        /\ fw_layers_run = 0
        /\ fw_new_mems = <<>>
        /\ fw_ret = None
        /\ fw_output_h = <<>>
        /\ fw_output_g = None
        /\ fw_hidden_states = None
        /\ fw_attentions = None
        /\ fw_attn_mask = None
        /\ fw_non_tgt_mask = None

\* a call with both inputs, asking for memories, has raised
C8_Witness ==
    /\ BothInputs
    /\ fw_args.use_mems_eval
    /\ fw_args.mems # None
    /\ fw_pc = "raised"
    /\ fw_exc = Some("ValueError")

-----------------------------------------------------------------------------
\* C9: in tuple form the result holds, in the order final hidden states,
\* memories, hidden states, attentions, exactly the values asked for:
\* memories iff the use-memory flag of the current mode is set
\* (use_mems_train when training, use_mems_eval otherwise), hidden states
\* iff output_hidden_states, attentions iff output_attentions; in mapping
\* form the four keys are always there, with None for what was not asked.
C9_ReturnedForm ==
    fw_pc = "returned" =>
        LET r == Get(fw_ret)
            want_mems == IF self.training THEN fw_args.use_mems_train
                         ELSE fw_args.use_mems_eval
            all == <<<<"last_hidden_state", TRUE>>,
                     <<"mems", want_mems>>,
                     <<"hidden_states", fw_args.output_hidden_states>>,
                     <<"attentions", fw_args.output_attentions>>>>
            asked == SelectSeq(all, LAMBDA p : p[2])
        IN  /\ r.form = IF fw_args.return_dict THEN "dict" ELSE "tuple"
            /\ IF r.form = "tuple"
               THEN /\ Len(r.items) = Len(asked)
                    /\ \A k \in 1..Len(asked) :
                           /\ r.items[k].key = asked[k][1]
                           /\ r.items[k].val # None
               ELSE /\ Len(r.items) = 4
                    /\ \A k \in 1..4 :
                           /\ r.items[k].key = all[k][1]
                           /\ r.items[k].val # None <=> all[k][2]
            /\ \A k \in 1..Len(r.items) :
                   LET it == r.items[k]
                   IN  /\ (it.key = "mems" /\ it.val # None) =>
                              Len(Get(it.val)) = self.n_layer
                       /\ (it.key = "hidden_states" /\ it.val # None) =>
                              Len(Get(it.val)) = self.n_layer + 1
                       /\ (it.key = "attentions" /\ it.val # None) =>
                              Len(Get(it.val)) = self.n_layer

\* a call in training mode whose use_mems_eval alone is set returns, in
\* tuple form, the final hidden states and the attentions and no memories
C9_Witness ==
    /\ fw_pc = "returned"
    /\ self.training
    /\ ~fw_args.use_mems_train
    /\ fw_args.use_mems_eval
    /\ fw_args.output_attentions
    /\ ~fw_args.output_hidden_states
    /\ ~fw_args.return_dict
    /\ Len(Get(fw_ret).items) = 2
    /\ Get(fw_ret).items[2].key = "attentions"

-----------------------------------------------------------------------------
\* both an input mask and an attention mask
BothMasks == fw_args.input_mask # None /\ fw_args.attention_mask # None

\* C10 as stated: a forward call that is given both an input mask and an
\* attention mask fails before any mask is built.
C10_Original ==
    (IdsCall /\ BothMasks /\ Over) =>
        /\ fw_pc = "raised"
        /\ fw_attn_mask = None
        /\ fw_non_tgt_mask = None

\* C10: a forward call that is given both an input mask and an attention
\* mask fails with an AssertionError before the data mask and the mask of
\* the content stream are built and before any layer runs, and picks neither
\* mask; the causal mask of a unidirectional model is built by then.
C10_BothMasksRaise ==
    (IdsCall /\ BothMasks /\ fw_pc \notin {"call", "data_mask"}) =>
        /\ fw_pc = "raised"
        /\ fw_exc = Some("AssertionError")
        /\ fw_non_tgt_mask = None
        /\ fw_layers_run = 0
        /\ fw_ret = None
        /\ IF self.attn_type = "uni"
           THEN /\ fw_attn_mask # None
                /\ Get(fw_attn_mask).shape =
                       <<Get(fw_loc).qlen, Get(fw_loc).klen, 1, 1>>
           ELSE fw_attn_mask = None

\* a unidirectional call with both masks has raised, its causal mask built
C10_Witness ==
    /\ IdsCall
    /\ BothMasks
    /\ self.attn_type = "uni"
    /\ fw_pc = "raised"
    /\ fw_exc = Some("AssertionError")
    /\ fw_attn_mask # None

-----------------------------------------------------------------------------
\* the first reuse_len positions of the last curr_out, or all of them when
\* reuse_len is unset or 0
LastEligible ==
    IF self.reuse_len # None /\ Get(self.reuse_len) > 0
    THEN SubSeq(mc_out, 1, Min(Get(self.reuse_len), Len(mc_out)))
    ELSE mc_out

\* the prev_mem of the last call as a sequence
LastPrev == IF mc_was = None THEN <<>> ELSE Get(mc_was)

\* C11: when mem_len is unset or zero cache_mem drops nothing: the new
\* memory is the whole previous memory followed by the eligible current
\* output, so over chained calls the memory grows by the eligible length on
\* every call.
C11_NothingDropped ==
    (mc_calls > 0 /\ (self.mem_len = None \/ Get(self.mem_len) = 0)) =>
        /\ Get(mc_prev) = LastPrev \o LastEligible
        /\ Len(Get(mc_prev)) = Len(LastPrev) + Len(LastEligible)
        /\ Get(mc_prev) = mc_fed

\* three calls of three positions each with mem_len = 0: nine are kept
C11_Witness ==
    /\ mc_calls = 3
    /\ self.mem_len = Some(0)
    /\ self.reuse_len = None
    /\ Len(LastPrev) = 6
    /\ Len(Get(mc_prev)) = 9

-----------------------------------------------------------------------------
\* C12: when reuse_len > 0 only the first reuse_len positions of a current
\* output ever enter the memory; when reuse_len is unset or 0 every position
\* of the current output is eligible.
C12_ReuseLenLimitsEligible ==
    mc_calls > 0 =>
        LET mem == Get(mc_prev)
            kept == IF self.mem_len = None \/ Get(self.mem_len) = 0
                    THEN Len(LastEligible)
                    ELSE Min(Get(self.mem_len), Len(LastEligible))
        IN  /\ (self.reuse_len # None /\ Get(self.reuse_len) > 0) =>
                   \A k \in 1..Len(mem) : mem[k][2] <= Get(self.reuse_len)
            /\ Len(mem) >= kept
            /\ SubSeq(mem, Len(mem) - kept + 1, Len(mem)) =
                   SubSeq(LastEligible, Len(LastEligible) - kept + 1,
                          Len(LastEligible))
            /\ (self.reuse_len = None \/ Get(self.reuse_len) = 0) =>
                   LastEligible = mc_out

\* an output of three positions with reuse_len = 2: the third is left out
C12_Witness ==
    /\ mc_calls = 2
    /\ self.reuse_len = Some(2)
    /\ self.mem_len = None
    /\ Len(mc_out) = 3
    /\ Len(LastPrev) = 2
    /\ Get(mc_prev) = LastPrev \o SubSeq(mc_out, 1, 2)

-----------------------------------------------------------------------------
\* the calls that are over, the one under way included once it has ended
CallsDone ==
    fw_log \o (IF Over
               THEN <<[args |-> fw_args, pc |-> fw_pc, ret |-> fw_ret,
                       exc |-> fw_exc]>>
               ELSE <<>>)

\* calls with the same arguments ended the same way
SameCallSameOutcome ==
    \A i, j \in 1..Len(CallsDone) :
        CallsDone[i].args = CallsDone[j].args => CallsDone[i] = CallsDone[j]

-----------------------------------------------------------------------------
\* the positions klen, klen - 1, ..., last
Descending(seq, klen, last) ==
    /\ Len(seq) = klen - last + 1
    /\ \A n \in 1..Len(seq) : seq[n] = klen - (n - 1)

\* every distance of lo..hi is a position of seq
Covers(seq, lo, hi) == \A d \in lo..hi : \E n \in 1..Len(seq) : seq[n] = d

\* the statement of C14 for one call
PositionsAsClaimed ==
    LET a == Get(ps_args)
    IN  IF self.attn_type = "bi"
        THEN /\ Descending(ps_fwd, a.klen, 1 - a.qlen)
             /\ Len(ps_fwd) = a.qlen + a.klen
             /\ Covers(ps_fwd, 1 - a.qlen, a.klen - 1)
        ELSE /\ Descending(ps_fwd, a.klen, 0)
             /\ Len(ps_fwd) = a.klen + 1
             /\ Covers(ps_fwd, 1, a.klen)

\* C14 as stated: whatever clamp_len is, the forward position sequence is
\* klen, klen - 1, ..., -qlen + 1 for bidirectional attention and
\* klen, ..., 0 for unidirectional attention.
C14_Original == ps_args # None => PositionsAsClaimed

\* C14: when clamp_len is not positive, the forward position sequence is
\* the descending integers klen, ..., -qlen + 1 (qlen + klen entries) for
\* bidirectional attention and klen, ..., 0 (klen + 1 entries) for
\* unidirectional attention, and so covers -qlen + 1 .. klen - 1 and
\* 1 .. klen; with a positive clamp_len it has the same length and holds
\* these integers clipped to -clamp_len .. clamp_len.
C14_ForwardPositions ==
    ps_args # None =>
      LET a == Get(ps_args)
          last == IF self.attn_type = "bi" THEN 1 - a.qlen ELSE 0
      IN  /\ self.clamp_len <= 0 => PositionsAsClaimed
          /\ self.clamp_len > 0 =>
               /\ Len(ps_fwd) = a.klen - last + 1
               /\ \A n \in 1..Len(ps_fwd) :
                    LET d == a.klen - (n - 1)
                    IN  ps_fwd[n] =
                          IF d > self.clamp_len THEN self.clamp_len
                          ELSE IF d < 0 - self.clamp_len
                               THEN 0 - self.clamp_len
                               ELSE d

\* an unclamped bidirectional call with a memory
C14_Witness ==
    /\ ps_args # None
    /\ self.attn_type = "bi"
    /\ self.clamp_len = -1
    /\ Get(ps_args).qlen = 2
    /\ Get(ps_args).klen = 3
    /\ ps_fwd = <<3, 2, 1, 0, -1>>

-----------------------------------------------------------------------------
\* a call given embeddings of shape [batch, seq_len, d_model] and no ids
EmbedsOnly ==
    /\ fw_args.input_ids = None
    /\ fw_args.inputs_embeds # None
    /\ Len(Get(fw_args.inputs_embeds).shape) = 3
    /\ Get(fw_args.inputs_embeds).shape[3] = DModel

\* C15: a forward call given pre-embedded input of shape
\* [batch, seq_len, d_model] and no token ids is accepted, with
\* qlen = seq_len and bsz = batch, and returns final hidden states of
\* shape [batch, seq_len, d_model].
C15_EmbedsAccepted ==
    (Over /\ EmbedsOnly) =>
        LET e == Get(fw_args.inputs_embeds)
        IN  /\ fw_pc = "returned"
            /\ Get(fw_loc).qlen = e.shape[2]
            /\ Get(fw_loc).bsz = e.shape[1]
            /\ Get(Get(fw_ret).items[1].val).shape
                 = <<e.shape[1], e.shape[2], DModel>>

-----------------------------------------------------------------------------
\* the call of rel_attn_core is over and did not raise
CoreDone == co_out # None /\ ~Get(co_out).err

\* key j is not masked for query i of batch b
Unmasked(b, i, j) ==
    \/ Get(co_args).attn_mask = None
    \/ At(Get(Get(co_args).attn_mask), <<i, j, b, 1>>) = 0

\* the sum of the numerators of the keys in J of one query row
NumSum(b, n, i, J) ==
    SeqSum([j \in 1..(Get(co_args).mlen + Get(co_args).qlen) |->
               IF j \in J THEN Get(co_out).attn_prob[<<b, n, i, j>>].num
               ELSE 0])

\* the probabilities of one query row sum to 1, on the unmasked keys alone
RowSumsToOne(b, n, i) ==
    LET klen == Get(co_args).mlen + Get(co_args).qlen
        den == Get(co_out).attn_prob[<<b, n, i, 1>>].den
    IN  /\ den > 0
        /\ NumSum(b, n, i, 1..klen) = den
        /\ NumSum(b, n, i, {j \in 1..klen : Unmasked(b, i, j)}) = den

\* the query rows that have an unmasked key
OpenRows ==
    {r \in (1..Get(co_args).bsz) \X (1..NHead) \X (1..Get(co_args).qlen) :
        \E j \in 1..(Get(co_args).mlen + Get(co_args).qlen) :
            Unmasked(r[1], r[3], j)}

\* C16 as stated: every query row with an unmasked key has probabilities
\* that sum to 1 along the key axis, the sum carried by the unmasked keys.
C16_Original ==
    CoreDone => \A r \in OpenRows : RowSumsToOne(r[1], r[2], r[3])

\* C16: when dropout is not active (eval mode or rate 0) and the head is
\* not switched off by the head mask, every query row with an unmasked key
\* has probabilities that sum to 1 along the key axis, the sum carried by
\* the unmasked keys; a head whose head mask entry is 0 has all its
\* probabilities 0.
C16_ProbabilitiesSumToOne ==
    CoreDone =>
        \A r \in OpenRows :
            LET a == Get(co_args)
                klen == a.mlen + a.qlen
            IN  /\ (/\ ~(self.training /\ self.dropout > 0)
                    /\ (a.head_mask = None \/ Get(a.head_mask)[r[2]] = 1))
                   => RowSumsToOne(r[1], r[2], r[3])
                /\ (a.head_mask # None /\ Get(a.head_mask)[r[2]] = 0)
                   => NumSum(r[1], r[2], r[3], 1..klen) = 0

\* an eval-mode call with a head mask that keeps every head, a row of three
\* keys of which one is masked and unequal scores on the other two
C16_Witness ==
    /\ CoreDone
    /\ ~self.training
    /\ Get(co_args).head_mask = Some([n \in 1..NHead |-> 1])
    /\ Get(co_args).attn_mask # None
    /\ Get(co_args).mlen + Get(co_args).qlen = 3
    /\ ~Unmasked(1, 1, 1)
    /\ Unmasked(1, 1, 2)
    /\ Unmasked(1, 1, 3)
    /\ Get(co_out).attn_prob[<<1, 1, 1, 2>>].num
         # Get(co_out).attn_prob[<<1, 1, 1, 3>>].num
    /\ RowSumsToOne(1, 1, 1)

-----------------------------------------------------------------------------
\* the keys j that query i may attend to, i and j counted from 1
MayAttend(i, j) ==
    /\ j \in 1..(Get(co_args).mlen + Get(co_args).qlen)
    /\ self.attn_type = "uni" => j <= Get(co_args).mlen + i

\* where the shifted score at [b, n, i, j] stood before the shift:
\* <<batch, head, query, position>>, counted from 1
ShiftedFrom(b, n, i, j) ==
    LET a == Get(co_args)
        P == IF self.attn_type = "bi" THEN a.qlen + (a.mlen + a.qlen)
             ELSE (a.mlen + a.qlen) + 1
    IN  Unflat(<<a.bsz, NHead, a.qlen, P>>,
               At(Get(co_out).bd, <<b, n, i, j>>))

\* the distance whose embedding is the position key p of batch column b
DistanceAt(b, p) ==
    pos_seqs(self, Get(co_args).qlen,
             Get(co_args).mlen + Get(co_args).qlen, Get(co_args).bsz)[b][p]

\* d clipped to -c..c
Clipped(d, c) == IF d > c THEN c ELSE IF d < 0 - c THEN 0 - c ELSE d

\* the entries of the scores that a query may attend to
Attended ==
    {e \in (1..Get(co_args).bsz) \X (1..NHead) \X (1..Get(co_args).qlen)
           \X (1..(Get(co_args).mlen + Get(co_args).qlen)) :
        MayAttend(e[3], e[4])}

\* C17 as stated: whatever the configuration, the shifted score at
\* (query i, key j) is the score of query i against the embedding of the
\* relative distance mlen + i - j, for every key j the query may attend to.
C17_Original ==
    CoreDone =>
        \A e \in Attended :
            LET from == ShiftedFrom(e[1], e[2], e[3], e[4])
            IN  /\ <<from[1], from[2], from[3]>> = <<e[1], e[2], e[3]>>
                /\ DistanceAt(e[1], from[4])
                     = Get(co_args).mlen + e[3] - e[4]

\* C17: the shifted score at (query i, key j) is the score of the same
\* query, batch column and head against the position key of index
\* qlen - i + j of the position sequence, for every i < qlen and every
\* key j the query may attend to (all j < klen for bidirectional, all
\* j <= mlen + i for unidirectional attention).  That key embeds the
\* relative distance mlen + i - j when clamp_len is not positive and
\* bi_data is off; with a positive clamp_len it embeds that distance
\* clipped to -clamp_len..clamp_len, and with bi_data on the second half
\* of the batch scores against the negated distance.
C17_ShiftedScoreDistance ==
    CoreDone =>
        \A e \in Attended :
            LET a == Get(co_args)
                from == ShiftedFrom(e[1], e[2], e[3], e[4])
                d == a.mlen + e[3] - e[4]
                signed == IF self.bi_data /\ e[1] > a.bsz \div 2
                          THEN 0 - d ELSE d
            IN  /\ from = <<e[1], e[2], e[3], a.qlen - e[3] + e[4] + 1>>
                /\ DistanceAt(e[1], from[4])
                     = IF self.clamp_len > 0
                       THEN Clipped(signed, self.clamp_len)
                       ELSE signed

\* a unidirectional call with a memory: the last query against its own key
C17_Witness ==
    /\ CoreDone
    /\ self.attn_type = "uni"
    /\ ~self.bi_data
    /\ self.clamp_len = -1
    /\ Get(co_args).qlen = 2
    /\ Get(co_args).mlen = 1
    /\ Get(co_args).bsz = 1
    /\ MayAttend(2, 3)
    /\ ShiftedFrom(1, 1, 2, 3) = <<1, 1, 2, 4>>
    /\ DistanceAt(1, 4) = 0

-----------------------------------------------------------------------------
\* C18: for 0/1 padding and permutation masks and same_length unset, the
\* final attention mask has only the values 0 and 1, and its entry for
\* (query i, key j, batch b) is 1 exactly when a contributor is positive
\* there: the causal mask (unidirectional attention, key j > mlen + i), the
\* padding mask of key j, or the permutation mask at (i, j); memory keys
\* are never masked by the padding or the permutation mask, and there is
\* no mask at all exactly when attention is bidirectional and the caller
\* gave no mask.
C18_FinalMaskIsUnionOfContributors ==
    (MasksBuilt /\ ~self.same_length) =>
        LET l == Get(fw_loc)
            NoData == /\ fw_args.input_mask = None
                      /\ fw_args.attention_mask = None
                      /\ fw_args.perm_mask = None
            Causal(i, j) == self.attn_type = "uni" /\ j > l.mlen + i
            Data(i, j, b) == j > l.mlen /\ DataAt(i, j - l.mlen, b) > 0
        IN  /\ fw_attn_mask = None <=> (self.attn_type = "bi" /\ NoData)
            /\ fw_attn_mask # None =>
                 /\ Len(Get(fw_attn_mask).shape) = 4
                 /\ \A f \in 1..Len(Get(fw_attn_mask).data) :
                        Get(fw_attn_mask).data[f] \in {0, 1}
                 /\ \A i \in 1..l.qlen, j \in 1..l.klen, b \in 1..l.bsz :
                      /\ MaskAt(Get(fw_attn_mask), i, j, b) = 1
                           <=> (Causal(i, j) \/ Data(i, j, b))
                      /\ j <= l.mlen =>
                           MaskAt(Get(fw_attn_mask), i, j, b) = 0

\* a unidirectional call with a memory, a padded second position and a
\* permutation mask: the three contributors each mask an entry of their own
C18_Witness ==
    /\ MasksBuilt
    /\ ~self.same_length
    /\ self.attn_type = "uni"
    /\ Get(fw_loc).mlen = 1
    /\ Get(fw_loc).qlen = 2
    /\ fw_args.attention_mask # None
    /\ fw_args.perm_mask # None
    /\ At(Get(fw_args.attention_mask), <<1, 1>>) = 0
    /\ At(Get(fw_args.attention_mask), <<1, 2>>) = 1
    /\ At(Get(fw_args.perm_mask), <<1, 2, 1>>) = 0
    /\ At(Get(fw_args.perm_mask), <<1, 2, 2>>) = 1
    /\ At(Get(fw_args.perm_mask), <<1, 1, 1>>) = 0
    /\ MaskAt(Get(fw_attn_mask), 1, 1, 1) = 0
    /\ MaskAt(Get(fw_attn_mask), 1, 2, 1) = 1
    /\ MaskAt(Get(fw_attn_mask), 1, 3, 1) = 1
    /\ MaskAt(Get(fw_attn_mask), 2, 1, 1) = 0
    /\ MaskAt(Get(fw_attn_mask), 2, 2, 1) = 1
    /\ MaskAt(Get(fw_attn_mask), 2, 3, 1) = 1

-----------------------------------------------------------------------------
\* whether the call caches memories: the flag of the current mode
MemoryEnabled ==
    IF self.training THEN fw_args.use_mems_train ELSE fw_args.use_mems_eval

\* the memory that layer i (counted from 1) must leave: the previous
\* memory of the caller for that layer followed by the stream h, cut to
\* its first reuse_len and then to its last mem_len positions
ExpectedMem(h, i) ==
    LET prev == IF fw_args.mems = None \/ Get(fw_args.mems)[i] = None
                THEN <<>>
                ELSE Get(Get(fw_args.mems)[i])
        cur == IF self.reuse_len # None /\ Get(self.reuse_len) > 0
               THEN SubSeq(h, 1, Min(Get(self.reuse_len), Len(h)))
               ELSE h
        all == prev \o cur
    IN  IF self.mem_len = None \/ Get(self.mem_len) = 0 THEN all
        ELSE SubSeq(all, Max(Len(all) - Get(self.mem_len), 0) + 1, Len(all))

\* the memories cached so far are those of the content streams that
\* entered the layers run so far, in layer order
MemsInLayerOrder ==
    fw_loc # None =>
        /\ ~MemoryEnabled => fw_new_mems = <<>>
        /\ MemoryEnabled =>
             /\ fw_pc \in {"layers", "returned"} =>
                    Len(fw_new_mems) = fw_layers_run
             /\ \A i \in 1..Len(fw_new_mems) :
                    fw_new_mems[i]
                      = ExpectedMem(Rows("h", i - 1, Get(fw_loc).qlen), i)
        /\ (fw_pc = "returned" /\ MemoryEnabled) =>
             /\ Len(fw_new_mems) = self.n_layer
             /\ \E k \in 1..Len(Get(fw_ret).items) :
                    /\ Get(fw_ret).items[k].key = "mems"
                    /\ Get(fw_ret).items[k].val = Some(fw_new_mems)

\* a layer caches the content stream that enters it
CachedBeforeLayer ==
    (fw_pc = "layers" /\ fw_layers_run' = fw_layers_run + 1
     /\ MemoryEnabled) =>
        fw_new_mems' = Append(fw_new_mems,
                              ExpectedMem(fw_output_h, fw_layers_run + 1))

\* C19: with memory enabled, the returned memories hold exactly one entry
\* per layer, in layer order; entry i is cache_mem applied to the content
\* stream entering layer i (the embedding output for the first layer, the
\* output of the layer before otherwise) and the caller's previous memory
\* for layer i; it is computed before layer i runs, so the output of the
\* last layer is never cached, and the query stream is never cached.
C19_MemoriesPerLayer == [] MemsInLayerOrder /\ [][CachedBeforeLayer]_vars

\* a call on two layers that returned the memories of the embedding output
\* and of the first layer's output, each cut to its last position
C19_Witness ==
    /\ fw_pc = "returned"
    /\ MemoryEnabled
    /\ self.n_layer = 2
    /\ self.mem_len = Some(1)
    /\ Get(fw_loc).qlen = 2
    /\ fw_new_mems = <<<<<<"h", 0, 2>>>>, <<<<"h", 1, 2>>>>>>
    /\ Get(fw_ret).items[2].key = "mems"
    /\ Get(fw_ret).items[2].val = Some(fw_new_mems)

-----------------------------------------------------------------------------
\* the call is past line 947: seg_mat is set
SegBuilt ==
    \/ fw_pc \in {"layers", "returned"}
    \/ fw_pc = "raised" /\ fw_layers_run > 0

\* the segment id of key j of batch element b, a memory key having id 0
SegIdOfKey(j, b) ==
    IF j <= Get(fw_loc).mlen THEN 0
    ELSE At(Get(fw_args.token_type_ids), <<b, j - Get(fw_loc).mlen>>)

\* the segment score that rel_attn_core builds from the seg_mat of the call
SegScore ==
    ef_of([seg_mat |-> fw_seg_mat, bsz |-> Get(fw_loc).bsz,
           qlen |-> Get(fw_loc).qlen, mlen |-> Get(fw_loc).mlen])

\* C20: when segment ids are given, seg_mat has shape [qlen, klen, bsz, 2]
\* and for every (i, j, b) exactly one channel is 1: channel 0 when query i
\* and key j have the same segment id, channel 1 otherwise, every memory
\* key being treated as segment id 0; when none are given seg_mat is
\* absent and the segment score is zero.
C20_SegMatOneHot ==
    SegBuilt =>
        LET l == Get(fw_loc)
        IN  IF fw_args.token_type_ids = None
            THEN fw_seg_mat = None /\ SegScore = 0
            ELSE /\ fw_seg_mat # None
                 /\ Get(fw_seg_mat).shape = <<l.qlen, l.klen, l.bsz, 2>>
                 /\ \A i \in 1..l.qlen, j \in 1..l.klen, b \in 1..l.bsz :
                      LET same == At(Get(fw_args.token_type_ids), <<b, i>>)
                                    = SegIdOfKey(j, b)
                      IN  /\ At(Get(fw_seg_mat), <<i, j, b, 1>>)
                               = IF same THEN 1 ELSE 0
                          /\ At(Get(fw_seg_mat), <<i, j, b, 2>>)
                               = IF same THEN 0 ELSE 1
                          /\ \A n \in 1..NHead :
                               SegScore[<<b, n, i, j>>]
                                 = IF same THEN {0} ELSE {1}

\* a call with a memory of one position whose first token is of segment 1
\* and whose second token is of segment 0
C20_Witness ==
    /\ SegBuilt
    /\ fw_args.token_type_ids # None
    /\ Get(fw_loc).mlen = 1
    /\ Get(fw_loc).qlen = 2
    /\ At(Get(fw_args.token_type_ids), <<1, 1>>) = 1
    /\ At(Get(fw_args.token_type_ids), <<1, 2>>) = 0
    /\ At(Get(fw_seg_mat), <<1, 1, 1, 2>>) = 1
    /\ At(Get(fw_seg_mat), <<2, 1, 1, 1>>) = 1
    /\ At(Get(fw_seg_mat), <<1, 2, 1, 1>>) = 1
    /\ At(Get(fw_seg_mat), <<1, 3, 1, 2>>) = 1

-----------------------------------------------------------------------------
\* C21: for each of the four equations that the attention core uses,
\* einsum4x4 returns the tensor whose entry at every output index is the
\* sum, over the contracted index, of the products of the matching entries
\* of the operands, whatever the orders in which the index sets it builds
\* are read.

EinDone == ein_args # None /\ ein_order # None /\ ein_out # None

\* the equations of the claim: the operands, the result, the contracted index
Contractions ==
    {[x |-> <<"i", "b", "n", "d">>, y |-> <<"j", "b", "n", "d">>,
      z |-> <<"b", "n", "i", "j">>, over |-> "d"],
     [x |-> <<"i", "b", "n", "d">>, y |-> <<"i", "s", "n", "d">>,
      z |-> <<"i", "b", "n", "s">>, over |-> "d"],
     [x |-> <<"i", "j", "b", "s">>, y |-> <<"i", "b", "n", "s">>,
      z |-> <<"b", "n", "i", "j">>, over |-> "s"],
     [x |-> <<"b", "n", "i", "j">>, y |-> <<"j", "b", "n", "d">>,
      z |-> <<"i", "b", "n", "d">>, over |-> "j"]}

EquationOf(t) == t.x \o <<",">> \o t.y \o <<"-", ">">> \o t.z

\* the size of the axis that the letter l names in the call a
SizeIn(t, a, l) ==
    IF \E k \in 1..4 : t.x[k] = l
    THEN a.x.shape[CHOOSE k \in 1..4 : t.x[k] = l]
    ELSE a.y.shape[CHOOSE k \in 1..4 : t.y[k] = l]

\* the entry of an operand that matches the output index out, the
\* contracted index being k
Matching(t, letters, operand, out, k) ==
    operand.data[FlatOff(operand.shape,
                         [c \in 1..4 |->
                             IF letters[c] = t.over
                             THEN k
                             ELSE out[CHOOSE r \in 1..4 :
                                         t.z[r] = letters[c]]]) + 1]

SumOfProducts(t, a, out) ==
    SeqSum([k \in 1..SizeIn(t, a, t.over) |->
               Matching(t, t.x, a.x, out, k) * Matching(t, t.y, a.y, out, k)])

C21_EinsumIsSumOfProducts ==
    EinDone =>
        LET a == Get(ein_args)
            z == Get(ein_out)
        IN  \E t \in Contractions :
              /\ EquationOf(t) = a.equation
              /\ ~z.err
              /\ z.shape = [r \in 1..4 |-> SizeIn(t, a, t.z[r])]
              /\ z.shape = einsum4x4(t.x, t.y, t.z, a.x, a.y).shape
              /\ Len(z.data) = Prod(z.shape)
              /\ \A f \in 1..Prod(z.shape) :
                   z.data[f] = SumOfProducts(t, a, Unflat(z.shape, f))
              /\ \A lists \in IndexLists(t.x, t.y, t.z) :
                   einsum4x4_read(a.equation, lists, a.x, a.y) = z

\* "ibnd,isnd->ibns" with every axis of size 2, the common indices read as
\* n before i
C21_Witness ==
    /\ EinDone
    /\ Get(ein_args).equation = ibnd \o <<",">> \o isnd \o <<"-", ">">> \o ibns
    /\ Get(ein_args).x.shape = <<2, 2, 2, 2>>
    /\ Get(ein_args).y.shape = <<2, 2, 2, 2>>
    /\ Get(ein_order).common_idx = <<"n", "i">>
    /\ Get(ein_out).shape = <<2, 2, 2, 2>>
    /\ At(Get(ein_out), <<1, 1, 1, 1>>) = 1 * 17 + 2 * 18
    /\ At(Get(ein_out), <<2, 1, 2, 2>>) = 11 * 31 + 12 * 32

-----------------------------------------------------------------------------
\* C22: for every qlen >= 1 and mlen >= 0, create_mask returns a
\* [qlen, mlen + qlen] mask of entries 0 and 1; counting rows and keys from
\* 0, with same_length set row i leaves exactly the mlen + 1 keys
\* i .. mlen + i unmasked, and with same_length unset exactly the
\* mlen + i + 1 keys 0 .. mlen + i.

CreateMaskDone == cm_args # None /\ cm_out # None

\* the keys, counted from 0, that row i of the mask m leaves unmasked
UnmaskedKeys(m, i) ==
    {j \in 0..(m.shape[2] - 1) :
        m.data[i * m.shape[2] + j + 1] = 0}

C22_CausalMaskRows ==
    CreateMaskDone =>
        LET a == Get(cm_args)
            m == Get(cm_out)
        IN  /\ ~m.err
            /\ m.shape = <<a.qlen, a.mlen + a.qlen>>
            /\ Len(m.data) = a.qlen * (a.mlen + a.qlen)
            /\ \A f \in 1..Len(m.data) : m.data[f] \in {0, 1}
            /\ \A i \in 0..(a.qlen - 1) :
                 IF self.same_length
                 THEN /\ UnmaskedKeys(m, i) = i..(a.mlen + i)
                      /\ Cardinality(UnmaskedKeys(m, i)) = a.mlen + 1
                 ELSE /\ UnmaskedKeys(m, i) = 0..(a.mlen + i)
                      /\ Cardinality(UnmaskedKeys(m, i)) = a.mlen + i + 1

\* same_length set, three queries over a memory of two: the last row hides
\* the two oldest keys
C22_Witness ==
    /\ CreateMaskDone
    /\ self.same_length
    /\ Get(cm_args) = [qlen |-> 3, mlen |-> 2]
    /\ Get(cm_out).data
         = <<0, 0, 0, 1, 1,
             1, 0, 0, 0, 1,
             1, 1, 0, 0, 0>>

-----------------------------------------------------------------------------
\* C23: a forward call with memory enabled that is given per-layer
\* memories of one length mlen (or no memories, mlen = 0) returns memories
\* that all have one length, min(mem_len, mlen + e) when mem_len > 0 and
\* mlen + e when mem_len is unset or zero, e being the eligible length of
\* the input; so in a chain of calls that feed returned memories back in,
\* the mlen read from layer 0 is the memory length of every layer.

\* the length of the memory that the call under way was given for layer i
GivenLen(i) ==
    IF fw_args.mems = None \/ Get(fw_args.mems)[i] = None
    THEN 0
    ELSE Len(Get(Get(fw_args.mems)[i]))

\* the memories given all have the length read from layer 0
GivenUniform ==
    fw_loc # None /\ \A i \in 1..self.n_layer : GivenLen(i) = Get(fw_loc).mlen

\* the eligible length of the input of the call under way
EligibleLen ==
    IF self.reuse_len # None /\ Get(self.reuse_len) > 0
    THEN Min(Get(self.reuse_len), Get(fw_loc).qlen)
    ELSE Get(fw_loc).qlen

\* the length claimed for every memory the call returns
ClaimedLen ==
    IF self.mem_len # None /\ Get(self.mem_len) > 0
    THEN Min(Get(self.mem_len), Get(fw_loc).mlen + EligibleLen)
    ELSE Get(fw_loc).mlen + EligibleLen

\* the call returned one memory per layer, each of the claimed length
ReturnedAsClaimed ==
    /\ fw_pc = "returned"
    /\ mems_returned(Get(fw_ret)) # None
    /\ Len(Get(mems_returned(Get(fw_ret)))) = self.n_layer
    /\ \A i \in 1..self.n_layer :
         Len(Get(mems_returned(Get(fw_ret)))[i]) = ClaimedLen

C23_ChainedMemoryLengths ==
    (Over /\ MemoryEnabled) => (GivenUniform /\ ReturnedAsClaimed)

\* what the code does keep: the memories given are of one length, a call
\* that returns returns the claimed lengths, and a call that was given
\* memories does not return
C23_LengthsUntilRaised ==
    /\ (fw_loc # None /\ MemoryEnabled) => GivenUniform
    /\ (fw_pc = "returned" /\ MemoryEnabled) => ReturnedAsClaimed
    /\ (Over /\ fw_loc # None /\ Get(fw_loc).mlen > 0) =>
           /\ fw_pc = "raised"
           /\ fw_layers_run = 1
           /\ fw_exc = Some("ShapeError")

\* the second call of a chain, given the memories the first one returned
C23_SecondCallGivenReturned ==
    /\ Len(fw_log) = 1
    /\ fw_log[1].pc = "returned"
    /\ fw_args.mems # None
    /\ Get(fw_args.mems)[1] = Some(Get(mems_returned(Get(fw_log[1].ret)))[1])
    /\ Over

====
